---- MODULE Spec2Model ----
(***************************************************************************)
(* Model of the runtime of react-render-loop-tracer: the tracked hooks     *)
(* (__trackedUseState, __trackedUseReducer, __trackedUseEffect), the       *)
(* global execution context __effectTracker, the dependency differ and     *)
(* the buffered logger; and of the Babel plugin that rewrites the hook     *)
(* calls of a file into calls of the tracked hooks.                        *)
(***************************************************************************)
EXTENDS Integers, Sequences, FiniteSets, TLC

(* ------------------------------ bounds --------------------------------- *)

\* effect invocations in one behaviour
MaxInvocations == 2
\* nesting depth of effect invocations
MaxDepth == 2
\* state-change entries logged by the effect invocations that are running
MaxCalls == 2
\* last reading of the clock (ms)
MaxClock == 9
\* the clock advances in steps of this many ms
TickStep == 4

\* entries handed to log() in one behaviour of the buffer engine
MaxEntries == 3
\* last reading of the clock (ms) in a behaviour of the buffer engine
MaxTime == 301
\* the clock advances between tasks in steps of this many ms
ElapseStep == 100
\* timing reports delivered to an observer callback in one batch
MaxBatch == 2

\* statements in a file handed to the source rewriter
MaxStatements == 2

(* --------------------------- program constants ------------------------- *)

\* `if (duration >= 8)`
SlowThreshold == 8

(* ------------------------------ values --------------------------------- *)

\* the JavaScript number NaN, the one value that is !== to itself
NaN == -1
\* values held by the useState hook, states held by the useReducer hook
Values == {0, NaN}
ReducerStates == {0, 1}
\* values of effect dependencies
DepValues == {0, 1}

\* a nullable / possibly undefined list (string[] | null, unknown[] | undefined)
Null == [some |-> FALSE, val |-> <<>>]
Some(s) == [some |-> TRUE, val |-> s]

\* no exception in flight
NoExc == "none"
Exceptions == {"Error1", "Error2"}

\* effect registrations (one per call site of the hook)
Effects == {1, 2}
\* raw setter identities handed out by useState, raw dispatch identities by useReducer
StateFns == {1}
ReducerFns == {2}
RawFns == StateFns \cup ReducerFns

\* arguments a caller passes to a tracked setter: a value or an updater function
Updaters == {"same", "flip"}
SetterArgs == [fn : {FALSE}, v : Values, f : {"same"}] \cup [fn : {TRUE}, v : {0}, f : Updaters]
\* actions a caller passes to a tracked dispatch
Actions == {"increment", "noop"}

\* dependency lists the renders pass to each effect hook (undefined = Null): effect 1
\* always passes two dependencies, effect 2 a variable that may be undefined
DepLists(e) ==
  IF e = 1 THEN {Some(<<0, 0>>), Some(<<0, 1>>), Some(<<1, 1>>)}
  ELSE {Null, Some(<<0, 0>>), Some(<<0, 1>>)}

\* the effects whose component an effect's body mounts synchronously: effect 1
\* mounts the subtree that registers effect 2
NestedIn(e) == IF e = 1 THEN {2} ELSE {}

(* --------------------------- pure helpers ------------------------------ *)

\* value !== newValue
StrictNotEqual(a, b) == a /= b \/ a = NaN \/ b = NaN

\* Object.is(a, b)
ObjectIs(a, b) == a = b

\* prevDeps[i] of a JavaScript array: undefined past the end (never Object.is to a value)
RECURSIVE ChangedFrom(_, _, _, _)
ChangedFrom(i, prevDeps, currentDeps, depNames) ==
  IF i > Len(currentDeps) THEN <<>>
  ELSE LET same == i <= Len(prevDeps) /\ ObjectIs(prevDeps[i], currentDeps[i])
           name == IF i <= Len(depNames) /\ depNames[i] /= ""
                   THEN depNames[i]
                   ELSE "dep[" \o ToString(i - 1) \o "]"
       IN  (IF same THEN <<>> ELSE <<name>>)
             \o ChangedFrom(i + 1, prevDeps, currentDeps, depNames)

getChangedDeps(prevDeps, currentDeps, depNames) ==
  IF ~prevDeps.some \/ ~depNames.some \/ ~currentDeps.some THEN Null
  ELSE Some(ChangedFrom(1, prevDeps.val, currentDeps.val, depNames.val))

\* changedDeps.join(", ")
RECURSIVE Join(_)
Join(names) ==
  IF Len(names) = 0 THEN ""
  ELSE IF Len(names) = 1 THEN names[1]
  ELSE names[1] \o ", " \o Join(Tail(names))

\* the reason ternary shared by the wrappers and the effect
ReasonText(changedDeps) ==
  IF ~changedDeps.some THEN "it was initially mounted"
  ELSE IF Len(changedDeps.val) = 0 THEN "it re-ran (no deps changed detected)"
  ELSE Join(changedDeps.val) \o " changed"

\* call-site metadata injected by the source rewriter
EffectLocation(e) == "App.tsx:" \o ToString(10 + e)
EffectComponent(e) == "App"
\* names passed for the dependencies: effect 1 has a name for its first dependency
\* only; null when the dependency argument is not an array literal
EffectDepNames(e) == IF e = 1 THEN Some(<<"x">>) ELSE Null
HookLocation(h) == "App.tsx:" \o ToString(h)
HookComponent(h) == "App"
HookStateName(h) == IF h \in StateFns THEN "count" ELSE "total"

\* updater functions and the reducer used by the modelled application
ApplyUpdater(f, v) == IF f = "flip" THEN (IF v = 0 THEN NaN ELSE 0) ELSE v

reducer(s, a) == IF a = "noop" THEN s ELSE (s + 1) % 2

(* ------------------------------ state ---------------------------------- *)

VARIABLES
  now,                 \* performance.now() / wall clock, in ms
  effectTrackerLogger, \* globalThis.__effectTrackerLogger is set
  hasPerformance,      \* typeof performance !== "undefined"
  hasPerformanceObserver, \* typeof PerformanceObserver !== "undefined"
  supportedTypes,      \* the entry types the host's observe() accepts
  initError,           \* exception that left the module's initialisation
  logBuffer,           \* const logBuffer
  flushTimer,          \* let flushTimer (TRUE = it holds the handle of a timeout)
  timeouts,            \* callbacks handed to setTimeout that the host has not run yet
  console,             \* lines the last step printed through console.log / info / warn
  sinkLog,             \* messages the last step handed to the custom logger
  effectTracker,       \* globalThis.__effectTracker: 0 = null, else a tracker object
  trackers,            \* the tracker objects allocated by effect invocations
  stack,               \* effect invocations whose body is executing
  raised,              \* exception travelling to the caller of an effect
  prevDepsRef,         \* useRef(undefined) of each effect registration
  isInitialRef,        \* useRef(true) of each effect registration
  stateTrackerMap,     \* WeakMap rawSetState -> tracked
  reducerTrackerMap,   \* WeakMap rawDispatch -> tracked
  wrappers,            \* the wrapper closures: meta and mirrored value
  hostState,           \* the framework's own state of each hook instance
  emitted,             \* history: the calls of log(), in order (*)
  hasRun,              \* history: the effect registration has been invoked before
  returned,            \* history: wrappers returned for each raw identity
  lastHook,            \* history: the tracked state hook call made by the last step
  rawCalls,            \* history: calls of rawSetState / rawDispatch made by the last step
  serial,              \* history: number of entries handed to log() by Emit
  lastCallback,        \* history: the observer or timer callback run by the last step
  source,              \* the file handed to the plugin, as parsed
  ast,                 \* the file's AST, which the plugin rewrites in place
  pass                 \* the plugin's state for the file, and the traversal's position

\* (*) made for the effect invocations that are running or ended in the last step

vars == <<now, effectTrackerLogger, hasPerformance, hasPerformanceObserver, supportedTypes,
          initError, logBuffer,
          flushTimer, timeouts, console,
          sinkLog, effectTracker, trackers, stack, raised, prevDepsRef, isInitialRef,
          stateTrackerMap, reducerTrackerMap, wrappers, hostState, emitted, hasRun,
          returned, lastHook, rawCalls, serial, lastCallback, source, ast, pass>>

hostVars == <<effectTrackerLogger, hasPerformance, hasPerformanceObserver, supportedTypes,
             initError>>
pluginVars == <<source, ast, pass>>
\* what no step of the runtime changes
envVars == <<hostVars, pluginVars>>
logVars == <<logBuffer, flushTimer, timeouts, console, sinkLog>>
effectVars == <<effectTracker, trackers, stack, raised, prevDepsRef, isInitialRef, hasRun>>
hookVars == <<stateTrackerMap, reducerTrackerMap, wrappers, hostState, returned>>

\* a tracker object that nothing references any more
DeadTracker ==
  [location |-> "", componentName |-> "", changedDeps |-> Null, depNames |-> Null,
   stateWasSet |-> FALSE]

\* the last step called no tracked state hook
NoHook == [fn |-> 0, wrapper |-> 0, cached |-> FALSE, initial |-> 0]

\* the log() calls made for invocations that are still running
Live(entries) ==
  LET IsLive(entry) == \E k \in DOMAIN stack : stack[k].tracker = entry.inv
  IN  SelectSeq(entries, IsLive)

\* the entry types the loader asks to observe
EntryTypes == {"longtask", "event"}

\* an initialisation without the try block
initObserverUnguarded(type) ==
  IF ~hasPerformanceObserver THEN [observing |-> FALSE, raised |-> NoExc]
  ELSE IF type \in supportedTypes THEN [observing |-> TRUE, raised |-> NoExc]
  ELSE [observing |-> FALSE, raised |-> "NotSupportedError"]

\* initLongTaskObserver() / initINPObserver(): return without PerformanceObserver,
\* else try { new PerformanceObserver(...).observe({ type }) } catch { }
initObserver(type) ==
  IF ~hasPerformanceObserver THEN [observing |-> FALSE, raised |-> NoExc]
  ELSE IF type \in supportedTypes THEN [observing |-> TRUE, raised |-> NoExc]
  ELSE [observing |-> FALSE, raised |-> NoExc]

(* --------------------------- source rewriter --------------------------- *)

\* the import source of the wrappers
RuntimeModule == "@jantimon/react-render-loop-tracer/runtime"

\* AST nodes, built as @babel/types builds them
identifier(name) == [type |-> "Identifier", name |-> name]
memberExpression(object, property, computed) ==
  [type |-> "MemberExpression", object |-> object, property |-> property,
   computed |-> computed]
arrayExpression(elements) == [type |-> "ArrayExpression", elements |-> elements]
stringLiteral(value) == [type |-> "StringLiteral", value |-> value]
numericLiteral(value) == [type |-> "NumericLiteral", value |-> value]
nullLiteral == [type |-> "NullLiteral"]
thisExpression == [type |-> "ThisExpression"]
arrowFunctionExpression == [type |-> "ArrowFunctionExpression"]
callExpression(callee, arguments) ==
  [type |-> "CallExpression", callee |-> callee, arguments |-> arguments]
\* the null that stands for a hole of an array literal: [a, , b]
Hole == [type |-> "null"]
\* no node at all: the value of args[i] beyond the arguments of a call
Missing == [type |-> "undefined"]

\* a statement of a component body: a call, the name its result is destructured
\* into first ("" when the call is not the init of an array pattern), and the
\* function that encloses it
Statement(declares, component, expression) ==
  [type |-> "Statement", declares |-> declares, component |-> component,
   expression |-> expression]

\* dependency arguments of the effect calls of the modelled files
DepsArguments ==
  { identifier("deps"),
    arrayExpression(<<>>),
    arrayExpression(<<identifier("x")>>),
    arrayExpression(<<memberExpression(identifier("props"), identifier("foo"), FALSE),
                      memberExpression(
                        memberExpression(identifier("props"), identifier("bar"), FALSE),
                        identifier("baz"), FALSE)>>),
    arrayExpression(<<identifier("x"), callExpression(identifier("f"), <<>>), Hole,
                      identifier("y")>>),
    arrayExpression(<<memberExpression(identifier("items"), identifier("i"), TRUE),
                      memberExpression(thisExpression, identifier("x"), FALSE),
                      memberExpression(identifier("items"), numericLiteral(0), TRUE)>>) }

\* argument lists of the effect calls: none, the callback, the callback and deps
EffectArguments ==
  {<<>>, <<arrowFunctionExpression>>}
    \cup {<<arrowFunctionExpression, deps>> : deps \in DepsArguments}

\* the statements of the modelled files
Statements ==
  { Statement("count", "App", callExpression(identifier("useState"), <<numericLiteral(0)>>)),
    Statement("", "App",
              callExpression(memberExpression(identifier("React"), identifier("useState"),
                                              FALSE), <<>>)),
    Statement("total", "App",
              callExpression(identifier("useReducer"),
                             <<identifier("reducer"), numericLiteral(0)>>)),
    Statement("memo", "App",
              callExpression(identifier("useMemo"),
                             <<arrowFunctionExpression,
                               arrayExpression(<<identifier("x")>>)>>)) }
    \cup {Statement("", "App", callExpression(identifier(hook), args)) :
            hook \in {"useEffect", "useLayoutEffect"}, args \in EffectArguments}

\* the files handed to the plugin
Files ==
  {[sourceType |-> sourceType, body |-> body] :
     sourceType \in {"module", "script"},
     body \in UNION {[1..n -> Statements] : n \in 0..MaxStatements}}

\* the runtime is modelled without a file under transformation
NoFile == [sourceType |-> "module", body |-> <<>>]

\* the plugin's per-file state before Program.enter
NewPass ==
  [phase |-> "parsed", visited |-> 0, needsImport |-> FALSE, hasUseState |-> FALSE,
   hasUseReducer |-> FALSE, hasUseEffect |-> FALSE, hasUseLayoutEffect |-> FALSE]

\* getComponentName(path): the name of the enclosing function
getComponentName(statement) == statement.component

\* getStateNameFromDeclarator(callPath)
getStateNameFromDeclarator(statement) ==
  IF statement.declares = "" THEN Null ELSE Some(statement.declares)

\* memberExpressionToString(node)
RECURSIVE memberExpressionToString(_)
memberExpressionToString(node) ==
  IF node.type = "Identifier" THEN node.name
  ELSE IF node.type = "MemberExpression"
    THEN memberExpressionToString(node.object)
           \o (IF node.computed
                 THEN "[" \o memberExpressionToString(node.property) \o "]"
                 ELSE "." \o node.property.name)
  ELSE "complex"

\* the callback of depsNode.elements.map
DepName(el) ==
  IF el.type = "null" THEN "complex"
  ELSE IF el.type = "Identifier" THEN el.name
  ELSE IF el.type = "MemberExpression" THEN memberExpressionToString(el)
  ELSE "complex"

\* a stringifier that names the identifiers and members only
stringifyNamed(depsNode) ==
  IF depsNode.type = "undefined" \/ depsNode.type /= "ArrayExpression" THEN Null
  ELSE LET Named(el) == el.type \in {"Identifier", "MemberExpression"}
           named == SelectSeq(depsNode.elements, Named)
       IN  Some([k \in DOMAIN named |-> DepName(named[k])])

\* stringifyDeps(depsNode)
stringifyDeps(depsNode) ==
  IF depsNode.type = "undefined" \/ depsNode.type /= "ArrayExpression" THEN Null
  ELSE Some([k \in DOMAIN depsNode.elements |-> DepName(depsNode.elements[k])])

\* isHookCall(callee, hookName)
isHookCall(callee, hookName) ==
  \/ callee.type = "Identifier" /\ callee.name = hookName
  \/ /\ callee.type = "MemberExpression"
     /\ callee.property.type = "Identifier"
     /\ callee.property.name = hookName

\* args[i] || t.identifier("undefined")   (i counts from 1)
ArgumentOr(args, i) == IF i <= Len(args) THEN args[i] ELSE identifier("undefined")

\* `${shortFilename}:${line}`: statement k of the body is on line k + 1
LocationLiteral(k) == stringLiteral("Component.tsx:" \o ToString(k + 1))

\* the kind of hook the CallExpression visitor sees in a call, "" for any other call
HookKind(call) ==
  IF isHookCall(call.callee, "useState") THEN "useState"
  ELSE IF isHookCall(call.callee, "useReducer") THEN "useReducer"
  ELSE IF isHookCall(call.callee, "useEffect") THEN "useEffect"
  ELSE IF isHookCall(call.callee, "useLayoutEffect") THEN "useLayoutEffect"
  ELSE ""

\* the node the CallExpression visitor replaces the call of statement k with
Replacement(statement, k) ==
  LET call == statement.expression
      args == call.arguments
      kind == HookKind(call)
      stateName == getStateNameFromDeclarator(statement)
      stateNameLiteral == stringLiteral(IF stateName.some THEN stateName.val ELSE "anonymous")
      componentLiteral == stringLiteral(getComponentName(statement))
      depNames == stringifyDeps(IF Len(args) >= 2 THEN args[2] ELSE Missing)
      depNamesArg == IF depNames.some
                       THEN arrayExpression([i \in DOMAIN depNames.val |->
                                               stringLiteral(depNames.val[i])])
                       ELSE nullLiteral
  IN IF kind = "useState" THEN
       callExpression(identifier("__trackedUseState"),
                      <<ArgumentOr(args, 1), LocationLiteral(k), componentLiteral,
                        stateNameLiteral>>)
     ELSE IF kind = "useReducer" THEN
       callExpression(identifier("__trackedUseReducer"),
                      <<ArgumentOr(args, 1), ArgumentOr(args, 2), ArgumentOr(args, 3),
                        LocationLiteral(k), componentLiteral, stateNameLiteral>>)
     ELSE IF kind \in {"useEffect", "useLayoutEffect"} THEN
       callExpression(identifier(IF kind = "useEffect" THEN "__trackedUseEffect"
                                 ELSE "__trackedUseLayoutEffect"),
                      <<ArgumentOr(args, 1), ArgumentOr(args, 2), LocationLiteral(k),
                        componentLiteral, depNamesArg>>)
     ELSE call

\* an import list that puts the effect wrappers first
NamesEffectsFirst(p) ==
  (IF p.hasUseEffect THEN <<"__trackedUseEffect">> ELSE <<>>)
    \o (IF p.hasUseLayoutEffect THEN <<"__trackedUseLayoutEffect">> ELSE <<>>)
    \o (IF p.hasUseState THEN <<"__trackedUseState">> ELSE <<>>)
    \o (IF p.hasUseReducer THEN <<"__trackedUseReducer">> ELSE <<>>)

\* Program.exit: const names = []; if (state.hasUse...) names.push(...)
Names(p) ==
  (IF p.hasUseState THEN <<"__trackedUseState">> ELSE <<>>)
    \o (IF p.hasUseReducer THEN <<"__trackedUseReducer">> ELSE <<>>)
    \o (IF p.hasUseEffect THEN <<"__trackedUseEffect">> ELSE <<>>)
    \o (IF p.hasUseLayoutEffect THEN <<"__trackedUseLayoutEffect">> ELSE <<>>)

\* the declaration Program.exit builds: a require() for CommonJS, else an import
RuntimeImport(sourceType, names) ==
  IF sourceType = "script"
    THEN [type |-> "VariableDeclaration", kind |-> "const", properties |-> names,
          init |-> callExpression(identifier("require"), <<stringLiteral(RuntimeModule)>>)]
    ELSE [type |-> "ImportDeclaration", specifiers |-> names,
          source |-> stringLiteral(RuntimeModule)]

\* no callback of an observer or of the timer ran in the step
NoCallback ==
  [kind |-> "none", reports |-> 0, identified |-> 0, windows |-> 0, held |-> 0,
   flushed |-> {}, delivered |-> {}]

Init ==
  /\ now = 1
  /\ effectTrackerLogger \in BOOLEAN
  /\ hasPerformance \in BOOLEAN
  /\ hasPerformanceObserver \in BOOLEAN
  /\ supportedTypes \in SUBSET EntryTypes
  /\ ~hasPerformanceObserver => supportedTypes = {}
  /\ initError = (IF initObserver("longtask").raised /= NoExc
                  THEN initObserver("longtask").raised
                  ELSE initObserver("event").raised)
  /\ logBuffer = <<>>
  /\ flushTimer = FALSE
  /\ timeouts = 0
  /\ console = <<>>
  /\ sinkLog = <<>>
  /\ effectTracker = 0
  /\ trackers = <<>>
  /\ stack = <<>>
  /\ raised = NoExc
  /\ prevDepsRef = [e \in Effects |-> Null]
  /\ isInitialRef = [e \in Effects |-> TRUE]
  /\ stateTrackerMap = [h \in StateFns |-> 0]
  /\ reducerTrackerMap = [h \in ReducerFns |-> 0]
  /\ wrappers = <<>>
  /\ hostState = [h \in RawFns |-> 0]
  /\ emitted = <<>>
  /\ hasRun = [e \in Effects |-> FALSE]
  /\ returned = [h \in RawFns |-> {}]
  /\ lastHook = NoHook
  /\ rawCalls = <<>>
  /\ lastCallback = NoCallback
  /\ serial = 0
  /\ source \in Files
  /\ ast = source
  /\ pass = NewPass

(* ------------------------------ logging -------------------------------- *)

\* the logging state at the start of a step, which has printed and delivered nothing yet
LogState == [logBuffer |-> logBuffer, flushTimer |-> flushTimer, timeouts |-> timeouts,
             console |-> <<>>, sinkLog |-> <<>>]

\* a step that calls neither log() nor the printer
Quiet ==
  /\ console' = <<>>
  /\ sinkLog' = <<>>
  /\ UNCHANGED <<logBuffer, flushTimer, timeouts>>

\* scheduleFlush(): arms the timeout unless one is pending
scheduleFlush(timer) == IF timer THEN timer ELSE TRUE

\* a scheduler that never calls setTimeout
ArmsNever(timer) == 0

\* a scheduler that calls setTimeout every time
ArmsAgain(timer) == 1

\* scheduleFlush(): the number of setTimeout calls it makes
Arms(timer) == IF timer THEN 0 ELSE 1

\* a router that sends every severity to console.log
ChannelLog(type) == "log"

Channel(type) ==
  IF type = "slow-effect" THEN "warn"
  ELSE IF type = "effect-run" THEN "info"
  ELSE "log"

\* a printer that prints nothing
printNothing(con, type, formatted) == con

\* printSingle(type, formatted)
printSingle(con, type, formatted) ==
  Append(con, [channel |-> Channel(type), text |-> formatted])

\* a log() that buffers whenever it can, custom logger or not
logBufferFirst(st, message, type, location, countKey) ==
  IF hasPerformance
    THEN [st EXCEPT !.logBuffer = Append(@, [message |-> message, time |-> now, type |-> type,
                                             location |-> location, countKey |-> countKey]),
                    !.flushTimer = scheduleFlush(@),
                    !.timeouts = @ + Arms(st.flushTimer)]
  ELSE IF effectTrackerLogger
    THEN [st EXCEPT !.sinkLog = Append(@, message)]
  ELSE [st EXCEPT !.console = printSingle(@, type, message)]

\* a log() that buffers only when an observer can group the entries
logForObservers(st, message, type, location, countKey) ==
  IF effectTrackerLogger
    THEN [st EXCEPT !.sinkLog = Append(@, message)]
  ELSE IF hasPerformance /\ hasPerformanceObserver
    THEN [st EXCEPT !.logBuffer = Append(@, [message |-> message, time |-> now, type |-> type,
                                             location |-> location, countKey |-> countKey]),
                    !.flushTimer = scheduleFlush(@),
                    !.timeouts = @ + Arms(st.flushTimer)]
  ELSE [st EXCEPT !.console = printSingle(@, type, message)]

\* log(message, type, location, countKey) applied to the logging state st
log(st, message, type, location, countKey) ==
  IF effectTrackerLogger
    THEN [st EXCEPT !.sinkLog = Append(@, message)]
  ELSE IF hasPerformance
    THEN [st EXCEPT !.logBuffer = Append(@, [message |-> message, time |-> now, type |-> type,
                                             location |-> location, countKey |-> countKey]),
                    !.flushTimer = scheduleFlush(@),
                    !.timeouts = @ + Arms(st.flushTimer)]
  ELSE [st EXCEPT !.console = printSingle(@, type, message)]

\* a count that ignores the key
CountAll(entries, n, key) == n

\* number of entries of a batch with the given countKey among the first n
CountKey(entries, n, key) ==
  Cardinality({i \in 1..n : entries[i].countKey = key})

\* printEntries(entries): [type] prefix and i/N counting per countKey
RECURSIVE PrintFrom(_, _, _)
PrintFrom(con, entries, i) ==
  IF i > Len(entries) THEN con
  ELSE LET entry == entries[i]
           idx == CountKey(entries, i, entry.countKey)
           total == CountKey(entries, Len(entries), entry.countKey)
           count == IF total > 1 THEN " " \o ToString(idx) \o "/" \o ToString(total) ELSE ""
       IN  PrintFrom(printSingle(con, entry.type,
                                 "[" \o entry.type \o "]" \o count \o " " \o entry.message),
                     entries, i + 1)

\* a printer that announces the size of the batch first
printWithSize(con, entries) ==
  PrintFrom(Append(con, [channel |-> "log", text |-> ToString(Len(entries)) \o " entries"]),
            entries, 1)

printEntries(con, entries) == PrintFrom(con, entries, 1)

\* a filter that lets only state changes through
OnlyStateChange(entry) == entry.type = "state-change"

\* a filter that lets everything through
AnyEntry(entry) == TRUE

\* `entry.type !== "effect-run"`
NotEffectRun(entry) == entry.type /= "effect-run"

\* the timeout callback of scheduleFlush: flushTimer = null; flushBuffer()
FlushTimerFires ==
  /\ timeouts > 0
  /\ stack = <<>>
  /\ raised = NoExc
  /\ timeouts' = timeouts - 1
  /\ flushTimer' = FALSE
  /\ console' = printEntries(<<>>, SelectSeq(logBuffer, NotEffectRun))
  /\ sinkLog' = <<>>
  /\ logBuffer' = <<>>
  /\ emitted' = Live(emitted)
  /\ UNCHANGED now
  /\ UNCHANGED envVars
  /\ UNCHANGED effectVars
  /\ UNCHANGED hookVars
  /\ lastHook' = NoHook
  /\ rawCalls' = <<>>
  /\ lastCallback' = [kind |-> "timer", reports |-> 0, identified |-> 0, windows |-> 0,
                      held |-> Len(logBuffer),
                      flushed |-> {logBuffer[k].time : k \in DOMAIN logBuffer},
                      delivered |-> {}]
  /\ UNCHANGED serial

(* --------------------------- tracked state hooks ----------------------- *)

\* a cache that never finds an entry
Untracked(map, fn) == 0

\* stateTrackerMap.get(rawSetState) / reducerTrackerMap.get(rawDispatch)
Tracked(map, fn) == map[fn]

\* __trackedUseState(initialValue, location, componentName, stateName) in a render of
\* the hook instance whose raw setter is h; __trackedUseReducer likewise with the
\* state returned by useReducer
TrackedHook(map, kind, h, initialValue) ==
  LET mounting == returned[h] = {}
      state == IF mounting THEN initialValue ELSE hostState[h]
      tracked == Tracked(map, h)
      fresh == [raw |-> h, kind |-> kind, location |-> HookLocation(h),
                componentName |-> HookComponent(h), stateName |-> HookStateName(h),
                value |-> IF kind = "state" THEN initialValue ELSE state]
  IN  /\ hostState' = [hostState EXCEPT ![h] = state]
      /\ wrappers' = IF tracked = 0 THEN Append(wrappers, fresh) ELSE wrappers
      /\ returned' = [returned EXCEPT
                        ![h] = @ \cup {IF tracked = 0 THEN Len(wrappers) + 1 ELSE tracked}]
      /\ lastHook' = [fn |-> h, cached |-> tracked /= 0, initial |-> initialValue,
                      wrapper |-> IF tracked = 0 THEN Len(wrappers) + 1 ELSE tracked]
      /\ rawCalls' = <<>>
      /\ lastCallback' = NoCallback
      /\ UNCHANGED serial

TrackedUseState(h, initialValue) ==
  /\ stack = <<>>
  /\ raised = NoExc
  /\ TrackedHook(stateTrackerMap, "state", h, initialValue)
  /\ stateTrackerMap' = [stateTrackerMap EXCEPT
                            ![h] = IF Tracked(stateTrackerMap, h) = 0
                                   THEN Len(wrappers) + 1 ELSE @]
  /\ emitted' = Live(emitted)
  /\ UNCHANGED <<now, reducerTrackerMap>>
  /\ UNCHANGED envVars
  /\ Quiet
  /\ UNCHANGED effectVars

TrackedUseReducer(h, initialArg) ==
  /\ stack = <<>>
  /\ \A g \in StateFns : returned[g] /= {}
  /\ raised = NoExc
  /\ TrackedHook(reducerTrackerMap, "reducer", h, initialArg)
  /\ reducerTrackerMap' = [reducerTrackerMap EXCEPT
                              ![h] = IF Tracked(reducerTrackerMap, h) = 0
                                     THEN Len(wrappers) + 1 ELSE @]
  /\ emitted' = Live(emitted)
  /\ UNCHANGED <<now, stateTrackerMap>>
  /\ UNCHANGED envVars
  /\ Quiet
  /\ UNCHANGED effectVars

(* --------------------------- tracked wrappers -------------------------- *)

\* the invocation whose body is executing (0 outside every effect body)
Running == IF stack = <<>> THEN 0 ELSE stack[Len(stack)].tracker

\* a wrapper that logs every call made inside an effect
LogsInContext(tracker, value, newValue) == tracker /= 0

\* `if (tracker) { if (value !== newValue) {` / `if (tracker && trackedState !== nextState) {`
ShouldLog(tracker, value, newValue) == tracker /= 0 /\ StrictNotEqual(value, newValue)

StateChangeMessage(tracker, hookName, stateName) ==
  "useEffect " \o tracker.location \o " in " \o tracker.componentName
    \o " changed " \o hookName \o " \"" \o stateName \o "\" because "
    \o ReasonText(tracker.changedDeps)

IsStateChange(entry) == entry.type = "state-change"

\* the framework's own update when a raw setter / dispatch is called
HostUpdate(kind, state, argument) ==
  IF kind = "state"
  THEN (IF argument.fn THEN ApplyUpdater(argument.f, state) ELSE argument.v)
  ELSE reducer(state, argument)

\* a wrapper that passes the argument on twice
ForwardTwice(raw, argument) ==
  <<[raw |-> raw, arg |-> argument], [raw |-> raw, arg |-> argument]>>

\* rawSetState(valueOrUpdater) / rawDispatch(action)
Forward(raw, argument) == <<[raw |-> raw, arg |-> argument]>>

\* the framework's state after the forwarded calls
RECURSIVE Deliver(_, _, _)
Deliver(host, kind, calls) ==
  IF calls = <<>> THEN host
  ELSE Deliver([host EXCEPT ![calls[1].raw] = HostUpdate(kind, @, calls[1].arg)],
               kind, Tail(calls))

\* the body of a wrapper closure, given the argument and its effect on the mirrored
\* value (newValue)
WrapperCall(w, hookName, newValue, argument) ==
  LET wr == wrappers[w]
      tracker == effectTracker
      logs == ShouldLog(tracker, wr.value, newValue)
      st == IF logs
            THEN log(LogState,
                     StateChangeMessage(trackers[tracker], hookName, wr.stateName),
                     "state-change", trackers[tracker].location,
                     trackers[tracker].location \o ":" \o trackers[tracker].componentName)
            ELSE LogState
  IN  /\ raised = NoExc
      /\ rawCalls' = Forward(wr.raw, argument)
      /\ lastCallback' = NoCallback
      /\ hostState' = Deliver(hostState, wr.kind, rawCalls')
      /\ logs => Len(SelectSeq(Live(emitted), IsStateChange)) < MaxCalls
      /\ trackers' = IF logs THEN [trackers EXCEPT ![tracker].stateWasSet = TRUE]
                     ELSE trackers
      /\ logBuffer' = st.logBuffer
      /\ flushTimer' = st.flushTimer
      /\ timeouts' = st.timeouts
      /\ console' = st.console
      /\ sinkLog' = st.sinkLog
      /\ emitted' = IF logs
                    THEN Append(Live(emitted),
                                [type |-> "state-change", inv |-> tracker, by |-> Running,
                                 reason |-> ReasonText(trackers[tracker].changedDeps),
                                 stateName |-> wr.stateName])
                    ELSE Live(emitted)
      /\ wrappers' = [wrappers EXCEPT ![w].value = newValue]
      /\ stack' = IF stack = <<>> THEN stack
                  ELSE [stack EXCEPT ![Len(stack)].changing =
                                        IF StrictNotEqual(wr.value, newValue)
                                        THEN Append(@, wr.stateName) ELSE @]
      /\ lastHook' = NoHook
      /\ UNCHANGED serial
      /\ UNCHANGED <<now, effectTracker, raised, prevDepsRef, isInitialRef, hasRun,
                     stateTrackerMap, reducerTrackerMap, returned>>
      /\ UNCHANGED envVars

\* wrapper(valueOrUpdater) of __trackedUseState
CallSetState(w, arg) ==
  /\ wrappers[w].kind = "state"
  /\ WrapperCall(w, "useState",
                 IF arg.fn THEN ApplyUpdater(arg.f, wrappers[w].value) ELSE arg.v,
                 arg)

\* wrapper(action) of __trackedUseReducer
CallDispatch(w, action) ==
  /\ wrappers[w].kind = "reducer"
  /\ WrapperCall(w, "useReducer",
                 reducer(wrappers[w].value, action),
                 action)

(* --------------------------- tracked effects --------------------------- *)

\* lines 441-449: the changed-dependency set of an invocation
ChangedDepsOf(isInitial, prevDeps, deps, depNames) ==
  IF isInitial THEN Null
  ELSE LET diff == getChangedDeps(prevDeps, deps, depNames)
       IN  IF ~diff.some THEN Some(<<>>) ELSE diff

\* an invocation that leaves isInitialRef.current alone
StaysInitial(isInitial) == isInitial

\* isInitialRef.current after an invocation has started
InitialAfterRun(isInitial) == FALSE

\* an exit that leaves the invocation's own tracker installed
KeepTracker(previousTracker, current) == current

\* an exit that clears the slot
RestoreNull(previousTracker, current) == 0

\* the finally block: globals.__effectTracker = previousTracker
RestoreTracker(previousTracker, current) == previousTracker

\* an exit that replaces the exception by one of its own
Replaced(exception) == "Error1"

\* try { callback() } finally { ... } has no catch clause: the exception leaves as thrown
Rethrown(exception) == exception

\* a threshold that is exclusive
ExceedsThreshold(duration) == duration > SlowThreshold

\* `if (duration >= 8)`
IsSlow(duration) == duration >= SlowThreshold

\* an effect-run entry for every invocation
RanAlways(tracker) == TRUE

\* `if (!tracker.stateWasSet)`
RanWithoutSet(tracker) == ~tracker.stateWasSet

TrackerContent(heap, ptr) == IF ptr = 0 THEN DeadTracker ELSE heap[ptr]

\* tracker objects still referenced by the global slot or by a running invocation
Collect(heap, ptr, frames) ==
  [i \in DOMAIN heap |->
     IF i = ptr \/ \E k \in DOMAIN frames : frames[k].tracker = i \/ frames[k].previousTracker = i
     THEN heap[i] ELSE DeadTracker]

\* the framework runs the effect closure created by a render that passed deps:
\* everything trackedEffectImpl's closure does before it calls callback()
BeginEffect(e, deps) ==
  LET depNames == EffectDepNames(e)
      changedDeps == ChangedDepsOf(isInitialRef[e], prevDepsRef[e], deps, depNames)
      id == Len(trackers) + 1
      tracker == [location |-> EffectLocation(e), componentName |-> EffectComponent(e),
                  changedDeps |-> changedDeps, depNames |-> depNames, stateWasSet |-> FALSE]
  IN  /\ raised = NoExc
      /\ \A h \in RawFns : returned[h] /= {}
      /\ Len(stack) < MaxDepth
      /\ \A k \in DOMAIN stack : e \in NestedIn(stack[k].effect)
      /\ Len(trackers) < MaxInvocations
      /\ isInitialRef' = [isInitialRef EXCEPT ![e] = InitialAfterRun(@)]
      /\ prevDepsRef' = [prevDepsRef EXCEPT ![e] = deps]
      /\ trackers' = Append(trackers, tracker)
      /\ effectTracker' = id
      /\ hasRun' = [hasRun EXCEPT ![e] = TRUE]
      /\ stack' = Append(stack,
                         [effect |-> e, tracker |-> id, previousTracker |-> effectTracker,
                          changedDeps |-> changedDeps,
                          startTime |-> IF hasPerformance THEN now ELSE 0,
                          began |-> now, first |-> ~hasRun[e],
                          prevDeps |-> prevDepsRef[e], deps |-> deps,
                          changing |-> <<>>,
                          preContent |-> TrackerContent(trackers, effectTracker)])
      /\ emitted' = Live(emitted)
      /\ Quiet
      /\ UNCHANGED <<now, raised>>
      /\ UNCHANGED envVars
      /\ UNCHANGED hookVars
      /\ lastHook' = NoHook
      /\ rawCalls' = <<>>
      /\ lastCallback' = NoCallback
      /\ UNCHANGED serial

\* the running effect body does work for d ms
Tick(d) ==
  /\ raised = NoExc
  /\ stack /= <<>>
  /\ now + d <= MaxClock
  /\ now' = now + d
  /\ emitted' = Live(emitted)
  /\ UNCHANGED envVars
  /\ Quiet
  /\ UNCHANGED effectVars
  /\ UNCHANGED hookVars
  /\ lastHook' = NoHook
  /\ rawCalls' = <<>>
  /\ lastCallback' = NoCallback
  /\ UNCHANGED serial

\* callback() returns: the finally block, slow-effect detection, the effect-run entry
EffectReturn ==
  /\ raised = NoExc
  /\ stack /= <<>>
  /\ LET frame == stack[Len(stack)]
         e == frame.effect
         countKey == EffectLocation(e) \o ":" \o EffectComponent(e)
         duration == now - frame.startTime
         slow == frame.startTime > 0 /\ IsSlow(duration)
         ran == RanWithoutSet(trackers[frame.tracker])
         reason == ReasonText(frame.changedDeps)
         st1 == IF slow
                THEN log(LogState,
                         "Slow effect: useEffect " \o EffectLocation(e) \o " in "
                           \o EffectComponent(e) \o " took " \o ToString(duration) \o "ms",
                         "slow-effect", EffectLocation(e), countKey)
                ELSE LogState
         st2 == IF ran
                THEN log(st1,
                         "useEffect " \o EffectLocation(e) \o " in " \o EffectComponent(e)
                           \o " ran because " \o reason,
                         "effect-run", EffectLocation(e), countKey)
                ELSE st1
         slowEntry == [type |-> "slow-effect", inv |-> frame.tracker, by |-> frame.tracker,
                       reason |-> "", stateName |-> ""]
         ranEntry == [type |-> "effect-run", inv |-> frame.tracker, by |-> frame.tracker,
                      reason |-> reason, stateName |-> ""]
     IN  /\ effectTracker' = RestoreTracker(frame.previousTracker, effectTracker)
         /\ stack' = SubSeq(stack, 1, Len(stack) - 1)
         /\ trackers' = Collect(trackers, effectTracker', stack')
         /\ logBuffer' = st2.logBuffer
         /\ flushTimer' = st2.flushTimer
         /\ timeouts' = st2.timeouts
         /\ console' = st2.console
         /\ sinkLog' = st2.sinkLog
         /\ emitted' = Live(emitted) \o (IF slow THEN <<slowEntry>> ELSE <<>>)
                                     \o (IF ran THEN <<ranEntry>> ELSE <<>>)
  /\ UNCHANGED <<now, raised, prevDepsRef, isInitialRef, hasRun>>
  /\ UNCHANGED envVars
  /\ UNCHANGED hookVars
  /\ lastHook' = NoHook
  /\ rawCalls' = <<>>
  /\ lastCallback' = NoCallback
  /\ UNCHANGED serial

\* an exit by exception that reports the run as the normal exit does
UnwindAndReport(exception) ==
  /\ stack /= <<>>
  /\ LET frame == stack[Len(stack)]
         e == frame.effect
         st == log(LogState,
                   "useEffect " \o EffectLocation(e) \o " in " \o EffectComponent(e)
                     \o " ran because " \o ReasonText(frame.changedDeps),
                   "effect-run", EffectLocation(e),
                   EffectLocation(e) \o ":" \o EffectComponent(e))
     IN  /\ effectTracker' = RestoreTracker(frame.previousTracker, effectTracker)
         /\ stack' = SubSeq(stack, 1, Len(stack) - 1)
         /\ trackers' = Collect(trackers, effectTracker', stack')
         /\ raised' = Rethrown(exception)
         /\ logBuffer' = st.logBuffer
         /\ flushTimer' = st.flushTimer
         /\ timeouts' = st.timeouts
         /\ console' = st.console
         /\ sinkLog' = st.sinkLog
  /\ emitted' = Live(emitted)
  /\ UNCHANGED <<now, prevDepsRef, isInitialRef, hasRun>>
  /\ UNCHANGED envVars
  /\ UNCHANGED hookVars
  /\ lastHook' = NoHook
  /\ rawCalls' = <<>>
  /\ lastCallback' = NoCallback
  /\ UNCHANGED serial

\* callback() throws: the finally block runs and the exception leaves the closure
Unwind(exception) ==
  /\ stack /= <<>>
  /\ LET frame == stack[Len(stack)]
     IN  /\ effectTracker' = RestoreTracker(frame.previousTracker, effectTracker)
         /\ stack' = SubSeq(stack, 1, Len(stack) - 1)
         /\ trackers' = Collect(trackers, effectTracker', stack')
         /\ raised' = Rethrown(exception)
  /\ emitted' = Live(emitted)
  /\ UNCHANGED <<now, prevDepsRef, isInitialRef, hasRun>>
  /\ UNCHANGED envVars
  /\ Quiet
  /\ UNCHANGED hookVars
  /\ lastHook' = NoHook
  /\ rawCalls' = <<>>
  /\ lastCallback' = NoCallback
  /\ UNCHANGED serial

\* the body of the running effect throws
EffectThrow(exception) ==
  /\ raised = NoExc
  /\ Unwind(exception)

\* an exception of a nested invocation is not caught by the enclosing effect body
PropagateThrow ==
  /\ raised /= NoExc
  /\ Unwind(raised)

\* the caller (the enclosing body's try/catch, or the framework) handles the exception
CatchException ==
  /\ raised /= NoExc
  /\ raised' = NoExc
  /\ emitted' = Live(emitted)
  /\ UNCHANGED <<now, effectTracker, trackers, stack, prevDepsRef,
                 isInitialRef, hasRun>>
  /\ UNCHANGED envVars
  /\ Quiet
  /\ UNCHANGED hookVars
  /\ lastHook' = NoHook
  /\ rawCalls' = <<>>
  /\ lastCallback' = NoCallback
  /\ UNCHANGED serial

(* --------------------------- specification ----------------------------- *)

Next ==
  \/ \E h \in StateFns, v \in Values : TrackedUseState(h, v)
  \/ \E h \in ReducerFns, v \in ReducerStates : TrackedUseReducer(h, v)
  \/ \E w \in DOMAIN wrappers, arg \in SetterArgs : CallSetState(w, arg)
  \/ \E w \in DOMAIN wrappers, a \in Actions : CallDispatch(w, a)
  \/ \E e \in Effects : \E deps \in DepLists(e) : BeginEffect(e, deps)
  \/ Tick(TickStep)
  \/ EffectReturn
  \/ \E x \in Exceptions : EffectThrow(x)
  \/ PropagateThrow
  \/ CatchException

\* the configurations in which log() delivers at once, over the first MaxClock ms
\* after construction: a custom logger in a browser-like environment (the test
\* setup), and no logger and no performance API (server-side rendering)
InitDirect ==
  /\ Init
  /\ effectTrackerLogger <=> hasPerformance
  /\ hasPerformanceObserver <=> hasPerformance
  /\ supportedTypes = (IF hasPerformanceObserver THEN EntryTypes ELSE {})
  /\ source = NoFile

Spec == InitDirect /\ [][Next]_vars

(* --------------------------- timing observers -------------------------- *)

\* what callers hand to log(): severity, location and countKey of two effects
LogKinds ==
  {[type |-> "state-change", location |-> "App.tsx:11", countKey |-> "App.tsx:11:App"],
   [type |-> "state-change", location |-> "App.tsx:12", countKey |-> "App.tsx:12:App"],
   [type |-> "effect-run", location |-> "App.tsx:11", countKey |-> "App.tsx:11:App"],
   [type |-> "slow-effect", location |-> "App.tsx:11", countKey |-> "App.tsx:11:App"]}

\* "longtask" performance entries the browser reports
LongTasks ==
  {[startTime |-> 1, duration |-> 100], [startTime |-> 101, duration |-> 100]}

\* "event" performance entries the browser reports (durationThreshold: 200)
Interactions ==
  {[name |-> "click", startTime |-> 1, duration |-> 200, processingStart |-> 1,
    processingEnd |-> 101, interactionId |-> 1],
   [name |-> "keydown", startTime |-> 1, duration |-> 300, processingStart |-> 101,
    processingEnd |-> 201, interactionId |-> 1],
   [name |-> "pointerenter", startTime |-> 2, duration |-> 200, processingStart |-> 2,
    processingEnd |-> 201, interactionId |-> 0],
   [name |-> "pointerdown", startTime |-> 101, duration |-> 200, processingStart |-> 101,
    processingEnd |-> 101, interactionId |-> 2]}

\* list.getEntries(): up to MaxBatch reports, each delivered once, in the order of
\* their start times, all of them complete when the callback runs
Batches(reports) ==
  {b \in UNION {[1..n -> reports] : n \in 1..MaxBatch} :
     /\ \A i \in DOMAIN b : b[i].startTime + b[i].duration <= now
     /\ \A i \in DOMAIN b : \A j \in DOMAIN b :
          i < j => b[i] /= b[j] /\ b[i].startTime <= b[j].startTime}

\* the three-way split of the buffer against a window
Before(buffer, start) ==
  LET Earlier(entry) == entry.time < start
  IN  SelectSeq(buffer, Earlier)

\* a split whose window excludes its end
DuringExclusive(buffer, start, end) ==
  LET Inside(entry) == ~(entry.time < start) /\ entry.time < end
  IN  SelectSeq(buffer, Inside)

During(buffer, start, end) ==
  LET Inside(entry) == ~(entry.time < start) /\ entry.time <= end
  IN  SelectSeq(buffer, Inside)

\* a split that keeps the grouped entries in the buffer as well
AfterOrInside(buffer, start, end) ==
  LET Later(entry) == ~(entry.time < start)
  IN  SelectSeq(buffer, Later)

After(buffer, start, end) ==
  LET Later(entry) == ~(entry.time < start) /\ ~(entry.time <= end)
  IN  SelectSeq(buffer, Later)

\* parts.join(", ") of the group header (the arrow U+2192 of the source is written
\* "->" here, and the dash U+2014 of the headers "-")
Summary(during) ==
  LET stateChanges == Len(SelectSeq(during, IsStateChange))
      effectRuns == Len(during) - stateChanges
      first == IF stateChanges > 0 THEN ToString(stateChanges) \o " effect->setState" ELSE ""
      second == IF effectRuns > 0 THEN ToString(effectRuns) \o " other effects" ELSE ""
  IN  IF stateChanges > 0 /\ effectRuns > 0 THEN first \o ", " \o second
      ELSE first \o second

\* a group that is opened for every window
PrintGroupAlways(con, header, during) ==
  Append(printEntries(Append(con, [channel |-> "groupCollapsed", text |-> header]),
                      during),
         [channel |-> "groupEnd", text |-> ""])

\* console.groupCollapsed(header); printEntries(during); console.groupEnd()
PrintGroup(con, header, during) ==
  IF Len(during) > 0
  THEN Append(printEntries(Append(con, [channel |-> "groupCollapsed", text |-> header]),
                           during),
              [channel |-> "groupEnd", text |-> ""])
  ELSE con

\* the entries of the before-partition that the long-task callback prints
LongTaskBefore(before) == before

\* the entries of the before-partition that the interaction callback prints
InteractionBefore(before) == SelectSeq(before, NotEffectRun)

\* one iteration of the long-task callback's loop
ProcessLongTask(st, task) ==
  LET taskStart == task.startTime
      taskEnd == task.startTime + task.duration
      before == Before(st.logBuffer, taskStart)
      during == During(st.logBuffer, taskStart, taskEnd)
      after == After(st.logBuffer, taskStart, taskEnd)
      header == "Long Task (" \o ToString(task.duration) \o "ms) - " \o Summary(during)
  IN  [st EXCEPT !.console = PrintGroup(printEntries(@, LongTaskBefore(before)),
                                        header, during),
                 !.logBuffer = after]

RECURSIVE ProcessLongTasks(_, _)
ProcessLongTasks(st, tasks) ==
  IF tasks = <<>> THEN st
  ELSE ProcessLongTasks(ProcessLongTask(st, Head(tasks)), Tail(tasks))

\* keys that include the reports without an interactionId
RECURSIVE EveryId(_, _)
EveryId(reports, seen) ==
  IF reports = <<>> THEN <<>>
  ELSE LET id == Head(reports).interactionId
       IN  IF id \in seen THEN EveryId(Tail(reports), seen)
           ELSE <<id>> \o EveryId(Tail(reports), seen \cup {id})

\* the keys of the interactions Map, in insertion order: reports without an
\* interactionId are skipped
RECURSIVE InteractionIds(_, _)
InteractionIds(reports, seen) ==
  IF reports = <<>> THEN <<>>
  ELSE LET id == Head(reports).interactionId
       IN  IF id = 0 \/ id \in seen THEN InteractionIds(Tail(reports), seen)
           ELSE <<id>> \o InteractionIds(Tail(reports), seen \cup {id})

\* a choice that keeps the first report of the group
FirstReport(longest, entries) == longest

\* entries.reduce((longest, curr) => longest.duration > curr.duration ? longest : curr)
RECURSIVE Worst(_, _)
Worst(longest, entries) ==
  IF entries = <<>> THEN longest
  ELSE Worst(IF longest.duration > Head(entries).duration THEN longest ELSE Head(entries),
             Tail(entries))

\* one iteration of the interaction callback's second loop
ProcessInteraction(st, worst) ==
  LET procStart == worst.processingStart
      procEnd == worst.processingEnd
      before == Before(st.logBuffer, procStart)
      during == During(st.logBuffer, procStart, procEnd)
      after == After(st.logBuffer, procStart, procEnd)
      header == "Slow Interaction: " \o worst.name \o " (" \o ToString(worst.duration)
                  \o "ms) - " \o Summary(during)
  IN  [st EXCEPT !.console = PrintGroup(printEntries(@, InteractionBefore(before)),
                                        header, during),
                 !.logBuffer = after]

RECURSIVE ProcessInteractions(_, _, _)
ProcessInteractions(st, reports, ids) ==
  IF ids = <<>> THEN st
  ELSE LET WithId(report) == report.interactionId = Head(ids)
           entries == SelectSeq(reports, WithId)
       IN  ProcessInteractions(ProcessInteraction(st, Worst(Head(entries), Tail(entries))),
                               reports, Tail(ids))

\* a step of the buffer engine that leaves the effects and the hooks alone
EngineStep ==
  /\ stack = <<>>
  /\ raised = NoExc
  /\ sinkLog' = LogState.sinkLog
  /\ emitted' = Live(emitted)
  /\ lastHook' = NoHook
  /\ rawCalls' = <<>>
  /\ UNCHANGED envVars
  /\ UNCHANGED effectVars
  /\ UNCHANGED hookVars

\* the PerformanceObserver callback for "longtask" entries
LongTaskSignal(tasks) ==
  LET st == ProcessLongTasks(LogState, tasks)
  IN  /\ initObserver("longtask").observing
      /\ EngineStep
      /\ logBuffer' = st.logBuffer
      /\ console' = st.console
      /\ lastCallback' = [kind |-> "longtask", reports |-> Len(tasks),
                          identified |-> Len(tasks), windows |-> Len(tasks),
                          held |-> Len(logBuffer), flushed |-> {},
                          delivered |-> {<<tasks[i].startTime,
                                           tasks[i].startTime + tasks[i].duration>> :
                                           i \in DOMAIN tasks}]
      /\ UNCHANGED <<now, flushTimer, timeouts, serial>>

\* the PerformanceObserver callback for "event" entries
InteractionSignal(reports) ==
  LET st == ProcessInteractions(LogState, reports, InteractionIds(reports, {}))
      WithId(report) == report.interactionId /= 0
      ids == InteractionIds(reports, {})
      WorstOf(id) ==
        LET Same(report) == report.interactionId = id
            entries == SelectSeq(reports, Same)
        IN  Worst(Head(entries), Tail(entries))
  IN  /\ initObserver("event").observing
      /\ EngineStep
      /\ logBuffer' = st.logBuffer
      /\ console' = st.console
      /\ lastCallback' = [kind |-> "event", reports |-> Len(reports),
                          identified |-> Len(SelectSeq(reports, WithId)),
                          windows |-> Len(InteractionIds(reports, {})),
                          held |-> Len(logBuffer), flushed |-> {},
                          delivered |-> {<<WorstOf(ids[i]).processingStart,
                                           WorstOf(ids[i]).processingEnd>> :
                                           i \in DOMAIN ids}]
      /\ UNCHANGED <<now, flushTimer, timeouts, serial>>

\* an instrumented effect or wrapper hands an entry to log()
Emit(kind) ==
  LET st == log(LogState, "m" \o ToString(serial + 1), kind.type, kind.location,
                kind.countKey)
  IN  /\ serial < MaxEntries
      /\ EngineStep
      /\ serial' = serial + 1
      /\ logBuffer' = st.logBuffer
      /\ flushTimer' = st.flushTimer
      /\ timeouts' = st.timeouts
      /\ console' = st.console
      /\ lastCallback' = NoCallback
      /\ UNCHANGED now

\* time passes between two tasks
Elapse(d) ==
  /\ now + d <= MaxTime
  /\ EngineStep
  /\ now' = now + d
  /\ console' = <<>>
  /\ lastCallback' = NoCallback
  /\ UNCHANGED <<logBuffer, flushTimer, timeouts, serial>>

NextBuffer ==
  \/ \E kind \in LogKinds : Emit(kind)
  \/ Elapse(ElapseStep)
  \/ \E tasks \in Batches(LongTasks) : LongTaskSignal(tasks)
  \/ \E reports \in Batches(Interactions) : InteractionSignal(reports)
  \/ FlushTimerFires

\* the default mode of a browser: no custom logger, performance API present
InitBuffered ==
  /\ Init
  /\ ~effectTrackerLogger
  /\ hasPerformance
  /\ hasPerformanceObserver
  /\ supportedTypes = EntryTypes
  /\ source = NoFile

SpecBuffer == InitBuffered /\ [][NextBuffer]_vars

\* every environment without a custom logger: with or without the performance API,
\* with or without observers
InitConsole ==
  /\ Init
  /\ ~effectTrackerLogger
  /\ hasPerformanceObserver => hasPerformance
  /\ source = NoFile

SpecConsole == InitConsole /\ [][NextBuffer]_vars

\* the timeout of scheduleFlush eventually runs its callback
FairSpecBuffer == SpecBuffer /\ WF_vars(FlushTimerFires)

(* ----------------------- source rewriter: traversal -------------------- *)

\* what no step of the plugin changes
runtimeVars == <<now, hostVars, logVars, effectVars, hookVars, emitted, lastHook, rawCalls,
                 serial, lastCallback>>

\* visitor.Program.enter
ProgramEnter ==
  /\ pass.phase = "parsed"
  /\ pass' = [pass EXCEPT !.phase = "traversing", !.needsImport = FALSE,
                          !.hasUseState = FALSE, !.hasUseReducer = FALSE,
                          !.hasUseEffect = FALSE, !.hasUseLayoutEffect = FALSE]
  /\ UNCHANGED <<source, ast, runtimeVars>>

\* visitor.CallExpression, on the next call of the body
CallExpression ==
  /\ pass.phase = "traversing"
  /\ pass.visited < Len(ast.body)
  /\ LET k == pass.visited + 1
         statement == ast.body[k]
         kind == HookKind(statement.expression)
     IN  /\ ast' = [ast EXCEPT !.body[k].expression = Replacement(statement, k)]
         /\ pass' = [pass EXCEPT
                       !.visited = k,
                       !.needsImport = @ \/ kind /= "",
                       !.hasUseState = @ \/ kind = "useState",
                       !.hasUseReducer = @ \/ kind = "useReducer",
                       !.hasUseEffect = @ \/ kind = "useEffect",
                       !.hasUseLayoutEffect = @ \/ kind = "useLayoutEffect"]
  /\ UNCHANGED <<source, runtimeVars>>

\* visitor.Program.exit
ProgramExit ==
  /\ pass.phase = "traversing"
  /\ pass.visited = Len(ast.body)
  /\ pass' = [pass EXCEPT !.phase = "done"]
  /\ ast' = IF ~pass.needsImport \/ Names(pass) = <<>> THEN ast
            ELSE [ast EXCEPT !.body = <<RuntimeImport(ast.sourceType, Names(pass))>> \o @]
  /\ UNCHANGED <<source, runtimeVars>>

NextPlugin ==
  \/ ProgramEnter
  \/ CallExpression
  \/ ProgramExit

\* one file of up to MaxStatements statements, CommonJS or ES module, in a build
\* for the browser
InitPlugin ==
  /\ Init
  /\ ~effectTrackerLogger
  /\ hasPerformance
  /\ hasPerformanceObserver
  /\ supportedTypes = EntryTypes

SpecPlugin == InitPlugin /\ [][NextPlugin]_vars


(* ------------------------------ properties ----------------------------- *)

\* C1: whenever an effect invocation ends, by return or by throw, the global
\* execution context is again the tracker (same object, same content) that was
\* installed immediately before the invocation
ContextRestoredOnExit ==
  [][Len(stack') < Len(stack) =>
       /\ effectTracker' = stack[Len(stack)].previousTracker
       /\ TrackerContent(trackers', effectTracker') = stack[Len(stack)].preContent]_vars

\* an invocation nested in a running effect body has thrown and the outer tracker is
\* the context again
NestedExitRestoredOuter ==
  /\ raised /= NoExc
  /\ stack /= <<>>
  /\ effectTracker = stack[Len(stack)].tracker
  /\ Len(trackers) = 2

\* C2: an exception thrown by an effect body reaches the caller as the very exception
\* that was thrown, also through enclosing effect bodies, and whenever an exception is
\* in flight the context of every invocation it has left is already restored
ExceptionPropagatesUnchanged ==
  [][/\ \A x \in Exceptions :
          EffectThrow(x) => /\ raised' = x
                            /\ effectTracker' = stack[Len(stack)].previousTracker
     /\ PropagateThrow => /\ raised' = raised
                          /\ effectTracker' = stack[Len(stack)].previousTracker
     /\ raised' /= NoExc =>
          effectTracker' = IF stack' = <<>> THEN 0 ELSE stack'[Len(stack')].tracker]_vars

\* the second exception has left every effect invocation and is with the framework
ExceptionReachedCaller ==
  /\ raised = "Error2"
  /\ stack = <<>>
  /\ effectTracker = 0

\* C3: a call of a tracked wrapper logs one state-change entry exactly when the
\* context is non-null and the new value is !== the mirrored value; otherwise, and
\* always outside effect bodies, it logs and prints nothing
WrapperEmitsIffContextAndChange ==
  [][LET Emission(w, newValue) ==
           LET should == effectTracker /= 0 /\ StrictNotEqual(wrappers[w].value, newValue)
               emits == /\ Len(emitted') = Len(Live(emitted)) + 1
                        /\ SubSeq(emitted', 1, Len(Live(emitted))) = Live(emitted)
                        /\ emitted'[Len(emitted')].type = "state-change"
                        /\ Len(sinkLog') + Len(console') = 1
               silent == /\ emitted' = Live(emitted)
                         /\ sinkLog' = <<>>
                         /\ console' = <<>>
           IN  /\ should => emits
               /\ ~should => silent
               /\ stack = <<>> => silent
     IN  /\ \A w \in DOMAIN wrappers, arg \in SetterArgs :
              CallSetState(w, arg) =>
                Emission(w, IF arg.fn THEN ApplyUpdater(arg.f, wrappers[w].value) ELSE arg.v)
         /\ \A w \in DOMAIN wrappers, a \in Actions :
              CallDispatch(w, a) => Emission(w, reducer(wrappers[w].value, a))]_vars

\* a wrapper call made in an effect body has just delivered a state-change entry
WrapperCallLogged ==
  /\ stack /= <<>>
  /\ Len(sinkLog) + Len(console) = 1
  /\ emitted /= <<>>
  /\ emitted[Len(emitted)].type = "state-change"
  /\ emitted[Len(emitted)].inv = effectTracker

\* C4: when an invocation whose body made k >= 1 value-changing wrapper calls ends,
\* it has logged exactly k state-change entries, in call order, each with the reason
\* the effect ran ("it was initially mounted" on the first invocation), and no
\* effect-run entry
MutatingEffectLogsOnlyStateChanges ==
  [][(Len(stack') < Len(stack) /\ stack[Len(stack)].changing /= <<>>) =>
       LET frame == stack[Len(stack)]
           IsChange(entry) == entry.inv = frame.tracker /\ entry.type = "state-change"
           IsRun(entry) == entry.inv = frame.tracker /\ entry.type = "effect-run"
           changes == SelectSeq(emitted', IsChange)
       IN  /\ [i \in DOMAIN changes |-> changes[i].stateName] = frame.changing
           /\ \A i \in DOMAIN changes :
                /\ changes[i].reason = ReasonText(frame.changedDeps)
                /\ frame.first => changes[i].reason = "it was initially mounted"
           /\ SelectSeq(emitted', IsRun) = <<>>]_vars

\* an invocation that changed both hooks' values has returned, leaving two entries
TwoStateChangesLogged ==
  /\ stack = <<>>
  /\ raised = NoExc
  /\ Len(emitted) = 2
  /\ \A i \in 1..2 : emitted[i].type = "state-change"
  /\ emitted[1].stateName /= emitted[2].stateName

\* C5: an invocation that returns without a value-changing wrapper call logs exactly
\* one effect-run entry, whose reason is "it was initially mounted" on the first
\* invocation and, on a re-run in which a dependency value changed, the changed
\* dependencies' names (dep[i] for a position without a name) followed by " changed"
QuietEffectLogsOneRun ==
  [][(EffectReturn /\ stack[Len(stack)].changing = <<>>) =>
       LET frame == stack[Len(stack)]
           IsRun(entry) == entry.inv = frame.tracker /\ entry.type = "effect-run"
           runs == SelectSeq(emitted', IsRun)
           prev == frame.prevDeps.val
           cur == frame.deps.val
           names == EffectDepNames(frame.effect)
           changed == {i \in 1..Len(cur) : i > Len(prev) \/ prev[i] /= cur[i]}
           NameOf(i) == IF names.some /\ i <= Len(names.val) /\ names.val[i] /= ""
                        THEN names.val[i]
                        ELSE "dep[" \o ToString(i - 1) \o "]"
           Nth(j) == CHOOSE i \in changed : Cardinality({k \in changed : k < i}) = j - 1
           expected == [j \in 1..Cardinality(changed) |-> NameOf(Nth(j))]
       IN  /\ Len(runs) = 1
           /\ frame.first => runs[1].reason = "it was initially mounted"
           /\ (~frame.first /\ frame.prevDeps.some /\ frame.deps.some /\ changed /= {})
                => runs[1].reason = Join(expected) \o " changed"]_vars

\* C6 as stated: every invocation that ends, however it ends and whatever the
\* environment, has logged a slow-effect entry exactly when its body took >= 8 ms, and
\* a body of >= 8 ms without value-changing call has logged one slow-effect and one
\* effect-run entry
SlowEntryIffEightMs ==
  [][Len(stack') < Len(stack) =>
       LET frame == stack[Len(stack)]
           IsSlowEntry(entry) == entry.inv = frame.tracker /\ entry.type = "slow-effect"
           IsRun(entry) == entry.inv = frame.tracker /\ entry.type = "effect-run"
           elapsed == now - frame.began
       IN  /\ Len(SelectSeq(emitted', IsSlowEntry)) = (IF elapsed >= 8 THEN 1 ELSE 0)
           /\ (elapsed >= 8 /\ frame.changing = <<>>)
                => Len(SelectSeq(emitted', IsRun)) = 1]_vars

\* C6, amended: an invocation whose body returns, started at a positive reading of
\* the performance clock, has logged a slow-effect entry exactly when the body took
\* >= 8 ms, with or without value-changing calls, and with no such call one effect-run
\* entry as well; an invocation whose body throws, or that runs without the
\* performance API, logs no slow-effect entry
SlowEntryIffEightMsOnTimedReturn ==
  [][Len(stack') < Len(stack) =>
       LET frame == stack[Len(stack)]
           IsSlowEntry(entry) == entry.inv = frame.tracker /\ entry.type = "slow-effect"
           IsRun(entry) == entry.inv = frame.tracker /\ entry.type = "effect-run"
           elapsed == now - frame.began
           timedReturn == EffectReturn /\ hasPerformance /\ frame.began > 0
       IN  /\ timedReturn =>
                /\ Len(SelectSeq(emitted', IsSlowEntry)) = (IF elapsed >= 8 THEN 1 ELSE 0)
                /\ frame.changing = <<>> => Len(SelectSeq(emitted', IsRun)) = 1
           /\ ~timedReturn => SelectSeq(emitted', IsSlowEntry) = <<>>]_vars

\* a body of 8 ms without value-changing call has returned: one slow-effect entry,
\* then one effect-run entry
SlowAndRunLogged ==
  /\ stack = <<>>
  /\ raised = NoExc
  /\ Len(emitted) = 2
  /\ emitted[1].type = "slow-effect"
  /\ emitted[2].type = "effect-run"
  /\ emitted[1].inv = emitted[2].inv
  /\ Len(sinkLog) = 2

\* C7: the changed-dependency set of a running invocation, as installed in its
\* tracker, is null exactly when the invocation is the first of its registration, and
\* only entries of a first invocation carry the reason "it was initially mounted"
NullChangedDepsOnlyOnFirstRun ==
  [][/\ \A k \in DOMAIN stack' :
          /\ stack'[k].changedDeps = Null <=> stack'[k].first
          /\ stack'[k].changedDeps.some <=> ~stack'[k].first
          /\ trackers'[stack'[k].tracker].changedDeps = stack'[k].changedDeps
     /\ \A i \in DOMAIN emitted' : \A k \in DOMAIN stack :
          (emitted'[i].inv = stack[k].tracker
             /\ emitted'[i].reason = "it was initially mounted") => stack[k].first]_vars

\* a registration is running for the second time, with an empty changed set
RerunWithEmptyChangedSet ==
  /\ stack /= <<>>
  /\ ~stack[Len(stack)].first
  /\ effectTracker = stack[Len(stack)].tracker
  /\ trackers[effectTracker].changedDeps = Some(<<>>)

\* C8: an entry of a re-run has the reason "it re-ran (no deps changed detected)"
\* only if no current dependency value differs from the value at the same position of
\* the previous run; when one differs, the reason names changed dependencies
NoDepsChangedOnlyOnZeroDiff ==
  \A i \in DOMAIN emitted : \A k \in DOMAIN stack :
    LET frame == stack[k]
        prev == frame.prevDeps.val
        cur == frame.deps.val
        differs == /\ frame.prevDeps.some
                   /\ frame.deps.some
                   /\ \E j \in 1..Len(cur) : j > Len(prev) \/ prev[j] /= cur[j]
    IN  (emitted[i].inv = frame.tracker /\ ~frame.first /\ differs)
          => /\ emitted[i].reason /= "it re-ran (no deps changed detected)"
             /\ emitted[i].reason /= "it was initially mounted"

\* C9: for the inputs of every re-run, the differ returns null when there is no
\* previous (or no current) list, and otherwise the names, in positional order, of
\* exactly the positions whose current value is not the previous one, dep[i] standing
\* for a position without a name
DifferNamesChangedPositions ==
  \A k \in DOMAIN stack :
    LET frame == stack[k]
        prev == frame.prevDeps.val
        cur == frame.deps.val
        names == EffectDepNames(frame.effect)
        changed == {i \in 1..Len(cur) : i > Len(prev) \/ prev[i] /= cur[i]}
        NameOf(i) == IF names.some /\ i <= Len(names.val) /\ names.val[i] /= ""
                     THEN names.val[i]
                     ELSE "dep[" \o ToString(i - 1) \o "]"
        Nth(j) == CHOOSE i \in changed : Cardinality({m \in changed : m < i}) = j - 1
        contract == IF ~frame.prevDeps.some \/ ~frame.deps.some THEN Null
                    ELSE Some([j \in 1..Cardinality(changed) |-> NameOf(Nth(j))])
    IN  ~frame.first => getChangedDeps(frame.prevDeps, frame.deps, names) = contract

\* C10: each raw setter / dispatch identity has at most one wrapper, every call of
\* the hook that sees the identity again returns that wrapper, and such a call
\* constructs nothing and leaves the wrappers' metadata and mirrored values as they are
OneWrapperPerIdentity ==
  [][/\ \A h \in RawFns :
          /\ Cardinality(returned'[h]) <= 1
          /\ Cardinality({w \in DOMAIN wrappers' : wrappers'[w].raw = h}) <= 1
     /\ (lastHook' /= NoHook /\ returned[lastHook'.fn] /= {})
          => /\ wrappers' = wrappers
             /\ lastHook'.wrapper \in returned[lastHook'.fn]]_vars

\* a re-render has just been handed the cached wrapper, whose mirrored value is not
\* the initial value the render passed
CachedWrapperReturned ==
  /\ lastHook.cached
  /\ returned[lastHook.fn] = {lastHook.wrapper}
  /\ wrappers[lastHook.wrapper].value /= lastHook.initial

\* C11: every call of a tracked wrapper, inside or outside an effect body and whether
\* or not it logs, leaves the mirrored value at the computed new value and calls the
\* raw setter / dispatch exactly once, with the argument it was given
WrapperMirrorsAndForwardsOnce ==
  [][LET Forwarding(w, newValue, argument) ==
           /\ wrappers'[w].value = newValue
           /\ \A v \in DOMAIN wrappers : v /= w => wrappers'[v] = wrappers[v]
           /\ rawCalls' = <<[raw |-> wrappers[w].raw, arg |-> argument]>>
           /\ hostState'[wrappers[w].raw]
                = HostUpdate(wrappers[w].kind, hostState[wrappers[w].raw], argument)
     IN  /\ \A w \in DOMAIN wrappers, arg \in SetterArgs :
              CallSetState(w, arg) =>
                Forwarding(w, IF arg.fn THEN ApplyUpdater(arg.f, wrappers[w].value)
                              ELSE arg.v, arg)
         /\ \A w \in DOMAIN wrappers, a \in Actions :
              CallDispatch(w, a) => Forwarding(w, reducer(wrappers[w].value, a), a)]_vars

\* a dispatch made outside every effect body, which logged nothing, has been forwarded
SilentCallForwarded ==
  /\ stack = <<>>
  /\ effectTracker = 0
  /\ Len(rawCalls) = 1
  /\ rawCalls[1].raw \in ReducerFns
  /\ rawCalls[1].arg = "increment"
  /\ sinkLog = <<>>
  /\ console = <<>>

\* C12: no step prints a buffered entry more than once, every printed line is the line
\* of an entry that was in the buffer, every entry a step prints has left the buffer
\* after the step, and an entry that has left the buffer never comes back
NoEntryPrintedTwice ==
  [][LET IsLine(line) == line.channel \in {"log", "info", "warn"}
         Texts(entry) ==
           {"[" \o entry.type \o "] " \o entry.message}
             \cup {"[" \o entry.type \o "] " \o ToString(i) \o "/" \o ToString(n) \o " "
                     \o entry.message : i \in 1..MaxEntries, n \in 1..MaxEntries}
         Prints(entry) ==
           Cardinality({i \in DOMAIN console' :
                          IsLine(console'[i]) /\ console'[i].text \in Texts(entry)})
         Held(buffer) == {buffer[k] : k \in DOMAIN buffer}
     IN  /\ \A k \in DOMAIN logBuffer :
              /\ Prints(logBuffer[k]) <= 1
              /\ Prints(logBuffer[k]) = 1 => logBuffer[k] \notin Held(logBuffer')
         /\ \A i \in DOMAIN console' :
              IsLine(console'[i]) =>
                \E k \in DOMAIN logBuffer : console'[i].text \in Texts(logBuffer[k])
         /\ \A k \in DOMAIN logBuffer' :
              \/ logBuffer'[k] \in Held(logBuffer)
              \/ /\ serial' = serial + 1
                 /\ logBuffer'[k].message = "m" \o ToString(serial')
         /\ \A j \in DOMAIN logBuffer' : \A k \in DOMAIN logBuffer' :
              logBuffer'[j].message = logBuffer'[k].message => j = k]_vars

\* one signal batch has printed two groups, from two windows that share the instant 101
TwoWindowsPrintedGroups ==
  /\ Cardinality({i \in DOMAIN console : console[i].channel = "groupCollapsed"}) = 2
  /\ serial >= 2

\* C13 as stated: an entry that is in the buffer before a step and not after it has
\* been printed by that step
LeavesOnlyByPrint ==
  [][LET IsLine(line) == line.channel \in {"log", "info", "warn"}
         Texts(entry) ==
           {"[" \o entry.type \o "] " \o entry.message}
             \cup {"[" \o entry.type \o "] " \o ToString(i) \o "/" \o ToString(n) \o " "
                     \o entry.message : i \in 1..MaxEntries, n \in 1..MaxEntries}
         Prints(entry) ==
           Cardinality({i \in DOMAIN console' :
                          IsLine(console'[i]) /\ console'[i].text \in Texts(entry)})
         Held(buffer) == {buffer[k] : k \in DOMAIN buffer}
     IN  \A k \in DOMAIN logBuffer :
           logBuffer[k] \notin Held(logBuffer') => Prints(logBuffer[k]) = 1]_vars

\* C13, amended: an entry of severity state-change or slow-effect leaves the buffer
\* only in a step that prints it; an effect-run entry leaves it either printed or,
\* unprinted, when the fallback timer flushes the buffer or when an interaction
\* callback finds it before a window
LeavesOnlyByPrintUnlessEffectRun ==
  [][LET IsLine(line) == line.channel \in {"log", "info", "warn"}
         Texts(entry) ==
           {"[" \o entry.type \o "] " \o entry.message}
             \cup {"[" \o entry.type \o "] " \o ToString(i) \o "/" \o ToString(n) \o " "
                     \o entry.message : i \in 1..MaxEntries, n \in 1..MaxEntries}
         Prints(entry) ==
           Cardinality({i \in DOMAIN console' :
                          IsLine(console'[i]) /\ console'[i].text \in Texts(entry)})
         Held(buffer) == {buffer[k] : k \in DOMAIN buffer}
     IN  \A k \in DOMAIN logBuffer :
           logBuffer[k] \notin Held(logBuffer') =>
             \/ Prints(logBuffer[k]) = 1
             \/ /\ logBuffer[k].type = "effect-run"
                /\ \/ FlushTimerFires
                   \/ \E reports \in Batches(Interactions) : InteractionSignal(reports)]_vars

\* the fallback timer has just emptied the buffer and printed a slow-effect warning
FlushPrintedWarning ==
  /\ ~flushTimer
  /\ logBuffer = <<>>
  /\ serial >= 2
  /\ \E i \in DOMAIN console : console[i].channel = "warn"
  /\ \A i \in DOMAIN console : console[i].channel \in {"log", "info", "warn"}

\* C14: every line printed on console.info, the channel of effect-run entries, lies
\* between a console.groupCollapsed and the console.groupEnd that closes it
EffectRunOnlyInGroups ==
  \A i \in DOMAIN console :
    console[i].channel = "info" =>
      \E j \in 1..(i - 1) :
        /\ console[j].channel = "groupCollapsed"
        /\ \A k \in (j + 1)..(i - 1) : console[k].channel /= "groupEnd"

\* C15: a long-task callback that processes one window prints no effect-run entry of
\* the before-partition, and an interaction callback that processes one window
\* prints every effect-run entry of the before-partition
BeforePrintByPath ==
  [][LET IsLine(line) == line.channel \in {"log", "info", "warn"}
         Texts(entry) ==
           {"[" \o entry.type \o "] " \o entry.message}
             \cup {"[" \o entry.type \o "] " \o ToString(i) \o "/" \o ToString(n) \o " "
                     \o entry.message : i \in 1..MaxEntries, n \in 1..MaxEntries}
         Prints(entry) ==
           Cardinality({i \in DOMAIN console' :
                          IsLine(console'[i]) /\ console'[i].text \in Texts(entry)})
         RunsBefore(start) ==
           {k \in DOMAIN logBuffer :
              logBuffer[k].type = "effect-run" /\ logBuffer[k].time < start}
     IN  /\ \A task \in LongTasks :
              LongTaskSignal(<<task>>) =>
                \A k \in RunsBefore(task.startTime) : Prints(logBuffer[k]) = 0
         /\ \A report \in Interactions :
              (report.interactionId /= 0 /\ InteractionSignal(<<report>>)) =>
                \A k \in RunsBefore(report.processingStart) : Prints(logBuffer[k]) = 1]_vars

\* C16: in buffered mode every state-change and every slow-effect entry in the buffer
\* is eventually printed, and it is printed by exactly one step, once: the step in
\* which it leaves the buffer for good
ChangesAndWarningsPrintedOnce ==
  /\ \A n \in 1..MaxEntries : \A type \in {"state-change", "slow-effect"} :
       (\E k \in DOMAIN logBuffer :
          logBuffer[k].message = "m" \o ToString(n) /\ logBuffer[k].type = type)
         ~> (\E i \in DOMAIN console :
               console[i].text \in
                 {"[" \o type \o "] " \o "m" \o ToString(n)}
                   \cup {"[" \o type \o "] " \o ToString(j) \o "/" \o ToString(c) \o " m"
                           \o ToString(n) : j \in 1..MaxEntries, c \in 1..MaxEntries})
  /\ [][LET IsLine(line) == line.channel \in {"log", "info", "warn"}
            Texts(entry) ==
              {"[" \o entry.type \o "] " \o entry.message}
                \cup {"[" \o entry.type \o "] " \o ToString(i) \o "/" \o ToString(n) \o " "
                        \o entry.message : i \in 1..MaxEntries, n \in 1..MaxEntries}
            Prints(entry) ==
              Cardinality({i \in DOMAIN console' :
                             IsLine(console'[i]) /\ console'[i].text \in Texts(entry)})
            Held(buffer) == {buffer[k] : k \in DOMAIN buffer}
        IN  \A k \in DOMAIN logBuffer :
              logBuffer[k].type /= "effect-run" =>
                /\ Prints(logBuffer[k]) <= 1
                /\ Prints(logBuffer[k]) = 1 <=> logBuffer[k] \notin Held(logBuffer')
                /\ serial' >= serial]_vars

\* the fallback timer has just printed a state-change entry that no window covered
FlushPrintedStateChange ==
  /\ ~flushTimer
  /\ logBuffer = <<>>
  /\ now = 1
  /\ \E i \in DOMAIN console : console[i].channel = "log"

\* C17: the callback of the fallback timer prints the buffered entries that are not
\* effect-run entries, one line each, in buffer order and outside any group, prints
\* nothing else, and leaves the buffer empty
FlushPrintsAllButEffectRuns ==
  [][FlushTimerFires =>
       LET Texts(entry) ==
             {"[" \o entry.type \o "] " \o entry.message}
               \cup {"[" \o entry.type \o "] " \o ToString(i) \o "/" \o ToString(n) \o " "
                       \o entry.message : i \in 1..MaxEntries, n \in 1..MaxEntries}
           Kept(entry) == entry.type /= "effect-run"
           kept == SelectSeq(logBuffer, Kept)
       IN  /\ Len(console') = Len(kept)
           /\ \A j \in DOMAIN kept :
                /\ console'[j].channel \in {"log", "warn"}
                /\ console'[j].text \in Texts(kept[j])
           /\ logBuffer' = <<>>
           /\ ~flushTimer']_vars

\* three entries were logged in the first millisecond, and the fallback timer has
\* just printed two of them and emptied the buffer
FlushDroppedEffectRun ==
  /\ ~flushTimer
  /\ logBuffer = <<>>
  /\ now = 1
  /\ serial = 3
  /\ Len(console) = 2

\* C18: a callback that processes one window [start, end] splits the buffer into the
\* entries with time < start, those with start <= time <= end and those with
\* time > end, each in buffer order and together holding every entry; the entries
\* of the middle part are the ones it prints in the group, and the buffer it leaves
\* is the last part
WindowSplitsBuffer ==
  [][LET Split(start, end) ==
           LET Earlier(entry) == entry.time < start
               Inside(entry) == start <= entry.time /\ entry.time <= end
               Later(entry) == entry.time > end
               before == SelectSeq(logBuffer, Earlier)
               during == SelectSeq(logBuffer, Inside)
               after == SelectSeq(logBuffer, Later)
               last == Len(console')
           IN  /\ Len(before) + Len(during) + Len(after) = Len(logBuffer)
               /\ Before(logBuffer, start) = before
               /\ During(logBuffer, start, end) = during
               /\ After(logBuffer, start, end) = after
               /\ logBuffer' = after
               /\ IF during = <<>>
                  THEN \A i \in DOMAIN console' : console'[i].channel /= "groupCollapsed"
                  ELSE /\ last >= Len(during) + 2
                       /\ console'[last - Len(during) - 1].channel = "groupCollapsed"
                       /\ console'[last].channel = "groupEnd"
                       /\ \A i \in (last - Len(during))..(last - 1) :
                            console'[i].channel \in {"log", "info", "warn"}
     IN  /\ \A task \in LongTasks :
              LongTaskSignal(<<task>>) =>
                Split(task.startTime, task.startTime + task.duration)
         /\ \A report \in Interactions :
              (report.interactionId /= 0 /\ InteractionSignal(<<report>>)) =>
                Split(report.processingStart, report.processingEnd)]_vars

\* a callback has printed one earlier entry on its own and one entry in a group, and
\* has kept one later entry in the buffer
WindowSplitThreeWays ==
  /\ Len(console) = 4
  /\ console[1].channel = "log"
  /\ console[2].channel = "groupCollapsed"
  /\ console[4].channel = "groupEnd"
  /\ Len(logBuffer) = 1

\* C19: a callback that processes one window opens a group if and only if some
\* buffered entry lies inside the window; it then opens and closes exactly one group,
\* prints every entry of the window between the two, in order, and the header ends
\* with "N effect->setState" for the N state-change entries and "M other effects"
\* for the M other entries, each left out when its count is 0, with N + M the number
\* of entries of the window
GroupPerNonEmptyWindow ==
  [][LET IsLine(line) == line.channel \in {"log", "info", "warn"}
         Texts(entry) ==
           {"[" \o entry.type \o "] " \o entry.message}
             \cup {"[" \o entry.type \o "] " \o ToString(i) \o "/" \o ToString(n) \o " "
                     \o entry.message : i \in 1..MaxEntries, n \in 1..MaxEntries}
         Opens == {i \in DOMAIN console' : console'[i].channel = "groupCollapsed"}
         Closes == {i \in DOMAIN console' : console'[i].channel = "groupEnd"}
         Parts(n, m) ==
           IF n > 0 /\ m > 0
           THEN ToString(n) \o " effect->setState, " \o ToString(m) \o " other effects"
           ELSE IF n > 0 THEN ToString(n) \o " effect->setState"
           ELSE IF m > 0 THEN ToString(m) \o " other effects"
           ELSE ""
         Group(prefix, start, end) ==
           LET Inside(entry) == start <= entry.time /\ entry.time <= end
               during == SelectSeq(logBuffer, Inside)
               n == Cardinality({k \in DOMAIN during : during[k].type = "state-change"})
               m == Cardinality({k \in DOMAIN during : during[k].type /= "state-change"})
               open == Len(console') - Len(during) - 1
           IN  /\ n + m = Len(during)
               /\ IF during = <<>>
                  THEN Opens = {} /\ Closes = {}
                  ELSE /\ Opens = {open}
                       /\ Closes = {Len(console')}
                       /\ console'[open].text = prefix \o Parts(n, m)
                       /\ \A k \in DOMAIN during :
                            /\ IsLine(console'[open + k])
                            /\ console'[open + k].text \in Texts(during[k])
     IN  /\ \A task \in LongTasks :
              LongTaskSignal(<<task>>) =>
                Group("Long Task (" \o ToString(task.duration) \o "ms) - ",
                      task.startTime, task.startTime + task.duration)
         /\ \A report \in Interactions :
              (report.interactionId /= 0 /\ InteractionSignal(<<report>>)) =>
                Group("Slow Interaction: " \o report.name \o " ("
                        \o ToString(report.duration) \o "ms) - ",
                      report.processingStart, report.processingEnd)]_vars

\* a long-task group of one state change and one other entry has been printed
GroupWithBothCounts ==
  /\ Len(console) = 4
  /\ console[1].channel = "groupCollapsed"
  /\ console[1].text = "Long Task (100ms) - 1 effect->setState, 1 other effects"
  /\ console[4].channel = "groupEnd"

\* C20: in every batch handed to printEntries (the entries the fallback timer
\* prints, the before-partition a callback prints, the during-partition of a window)
\* an entry whose countKey occurs N > 1 times in the batch is printed with the ordinal
\* i/N, i being its rank among the entries of that key in buffer order, and an entry
\* whose countKey occurs once is printed without an ordinal
OrdinalsPerKeyInBatch ==
  [][LET Same(batch, k) == {j \in DOMAIN batch : batch[j].countKey = batch[k].countKey}
         Ordinal(batch, k) ==
           IF Cardinality(Same(batch, k)) > 1
           THEN " " \o ToString(Cardinality({j \in Same(batch, k) : j <= k})) \o "/"
                  \o ToString(Cardinality(Same(batch, k)))
           ELSE ""
         Printed(batch, offset) ==
           \A k \in DOMAIN batch :
             /\ offset + k \in DOMAIN console'
             /\ console'[offset + k].text =
                  "[" \o batch[k].type \o "]" \o Ordinal(batch, k) \o " " \o batch[k].message
         Kept(entry) == entry.type /= "effect-run"
         Window(start, end, runsBefore) ==
           LET Earlier(entry) == entry.time < start /\ (runsBefore \/ Kept(entry))
               Inside(entry) == start <= entry.time /\ entry.time <= end
               before == SelectSeq(logBuffer, Earlier)
               during == SelectSeq(logBuffer, Inside)
           IN  /\ Printed(before, 0)
               /\ Printed(during, Len(before) + 1)
     IN  /\ FlushTimerFires => Printed(SelectSeq(logBuffer, Kept), 0)
         /\ \A task \in LongTasks :
              LongTaskSignal(<<task>>) =>
                Window(task.startTime, task.startTime + task.duration, TRUE)
         /\ \A report \in Interactions :
              (report.interactionId /= 0 /\ InteractionSignal(<<report>>)) =>
                Window(report.processingStart, report.processingEnd, FALSE)]_vars

\* one batch of three entries has been printed, the first and the third with the
\* ordinals of their shared key and the second, alone with its key, without one
OrdinalsAroundSingleKey ==
  /\ Len(console) = 3
  /\ console[1].text = "[state-change] 1/2 m1"
  /\ console[2].text = "[state-change] m2"
  /\ console[3].text = "[slow-effect] 2/2 m3"

\* C21: the interaction callback processes one window per distinct non-zero
\* interactionId of its batch, in the order in which the identifiers first occur:
\* the window [processingStart, processingEnd] of a report whose duration is the
\* greatest among the reports of that identifier, labelled with that report's name
\* and duration; nothing else is partitioned or printed
OneWindowPerInteraction ==
  [][\A batch \in Batches(Interactions) :
       InteractionSignal(batch) =>
         LET Ids == {batch[i].interactionId : i \in DOMAIN batch} \ {0}
             First(id) == CHOOSE i \in DOMAIN batch :
                            /\ batch[i].interactionId = id
                            /\ \A j \in 1..(i - 1) : batch[j].interactionId /= id
             Greatest(id) ==
               {batch[i] : i \in {k \in DOMAIN batch :
                                    /\ batch[k].interactionId = id
                                    /\ \A j \in DOMAIN batch :
                                         batch[j].interactionId = id
                                           => batch[j].duration <= batch[k].duration}}
             Opens == {i \in DOMAIN console' : console'[i].channel = "groupCollapsed"}
             Is(st) == console' = st.console /\ logBuffer' = st.logBuffer
         IN  /\ Cardinality(Opens) <= Cardinality(Ids)
             /\ Ids = {} => console' = <<>> /\ logBuffer' = logBuffer
             /\ \A a \in Ids :
                  Ids = {a} =>
                    \E worst \in Greatest(a) : Is(ProcessInteraction(LogState, worst))
             /\ \A a \in Ids, c \in Ids :
                  (Ids = {a, c} /\ First(a) < First(c)) =>
                    \E worst \in Greatest(a), next \in Greatest(c) :
                      Is(ProcessInteraction(ProcessInteraction(LogState, worst), next))]_vars

\* a batch of two reports with one interactionId has been processed as one window,
\* labelled with the longer of the two
TwoReportsOneWindow ==
  /\ lastCallback.kind = "event"
  /\ lastCallback.reports = 2
  /\ lastCallback.identified = 2
  /\ lastCallback.windows = 1
  /\ Len(console) = 3
  /\ console[1].channel = "groupCollapsed"
  /\ console[1].text = "Slow Interaction: keydown (300ms) - 1 effect->setState"

\* C22: the interaction callback ignores the reports without an interactionId
\* (0 or absent): a batch made of such reports only prints nothing, opens no group
\* and leaves the buffer as it was, and any other batch is processed as if those
\* reports were not in it
ReportsWithoutIdDiscarded ==
  [][\A batch \in Batches(Interactions) :
       InteractionSignal(batch) =>
         LET HasId(report) == report.interactionId /= 0
             kept == SelectSeq(batch, HasId)
             st == ProcessInteractions(LogState, kept, InteractionIds(kept, {}))
         IN  /\ kept = <<>> => console' = <<>> /\ logBuffer' = logBuffer
             /\ console' = st.console
             /\ logBuffer' = st.logBuffer]_vars

\* a batch holding only a report without an interactionId has been delivered while an
\* entry logged inside that report's processing time was in the buffer, and the
\* entry is still there
UnidentifiedReportIgnored ==
  /\ lastCallback.kind = "event"
  /\ lastCallback.reports = 1
  /\ lastCallback.identified = 0
  /\ lastCallback.held = Len(logBuffer)
  /\ \E k \in DOMAIN logBuffer : logBuffer[k].time = 101
  /\ console = <<>>

\* C23: while a custom logger is set, the step that emits entries hands their
\* messages to the logger, one call per entry and in the order of emission, and no
\* other step calls it; the buffer stays empty, no timeout is armed and nothing is
\* printed on the console
SinkReceivesEveryEntryOnce ==
  [][effectTrackerLogger =>
       LET new == SubSeq(emitted', Len(Live(emitted)) + 1, Len(emitted'))
           Where(entry) ==
             "useEffect " \o trackers[entry.inv].location \o " in "
               \o trackers[entry.inv].componentName
           Messages(entry) ==
             IF entry.type = "state-change"
             THEN {Where(entry) \o " changed " \o hook \o " \"" \o entry.stateName
                     \o "\" because " \o entry.reason : hook \in {"useState", "useReducer"}}
             ELSE IF entry.type = "effect-run"
             THEN {Where(entry) \o " ran because " \o entry.reason}
             ELSE {"Slow effect: " \o Where(entry) \o " took " \o ToString(d) \o "ms" :
                     d \in 0..MaxClock}
       IN  /\ Len(sinkLog') = Len(new)
           /\ \A k \in DOMAIN new : sinkLog'[k] \in Messages(new[k])
           /\ logBuffer' = <<>>
           /\ ~flushTimer'
           /\ timeouts' = 0
           /\ console' = <<>>]_vars

\* a slow effect that set no state has returned under a custom logger, which
\* received the warning and then the run, while buffer, timer and console stayed idle
SinkGotWarningThenRun ==
  /\ effectTrackerLogger
  /\ Len(sinkLog) = 2
  /\ Len(emitted) >= 2
  /\ emitted[Len(emitted) - 1].type = "slow-effect"
  /\ emitted[Len(emitted)].type = "effect-run"
  /\ logBuffer = <<>>
  /\ timeouts = 0
  /\ console = <<>>

\* C24: the flush scheduler is either idle (flushTimer null, no timeout pending) or
\* pending (flushTimer set, exactly one timeout pending); a log call while it is
\* pending leaves the timer as it is, a log call while it is idle arms it, nothing
\* but the timeout's own callback takes a pending timeout away, and that callback
\* leaves the scheduler idle
SchedulerIdleOrPending ==
  /\ [](/\ timeouts \in {0, 1}
        /\ flushTimer <=> timeouts = 1)
  /\ [][/\ (serial' /= serial /\ flushTimer) => (flushTimer' /\ timeouts' = timeouts)
        /\ (serial' /= serial /\ ~flushTimer) => (flushTimer' /\ timeouts' = 1)
        /\ (timeouts' < timeouts \/ (flushTimer /\ ~flushTimer')) =>
             lastCallback'.kind = "timer"
        /\ lastCallback'.kind = "timer" =>
             (flushTimer /\ ~flushTimer' /\ timeouts' = 0)]_vars

\* the timeout fired and flushed the first entry, and the log call of the second
\* entry has armed a new one
TimerArmedAgainAfterFiring ==
  /\ now = 1
  /\ serial = 2
  /\ Len(logBuffer) = 1
  /\ logBuffer[1].message = "m2"
  /\ flushTimer
  /\ timeouts = 1

\* C25: where no observer is available, the step that emits an entry prints it and
\* does not put it in the buffer
NoObserverPrintsAtOnce ==
  [][(~hasPerformanceObserver /\ serial' /= serial) =>
       (Len(console') = 1 /\ logBuffer' = logBuffer)]_vars

\* C25, amended: where no observer is available, an entry is printed by the step that
\* emits it only if the performance API is missing as well; with the performance API
\* the entry is appended to the buffer, the timeout is armed, and nothing is printed
\* before the timeout's callback, which prints outside any group
NoObserverFlushesByTimer ==
  [][~hasPerformanceObserver =>
       /\ (serial' /= serial /\ hasPerformance) =>
            /\ console' = <<>>
            /\ Len(logBuffer') = Len(logBuffer) + 1
            /\ logBuffer'[Len(logBuffer')].message = "m" \o ToString(serial')
            /\ logBuffer'[Len(logBuffer')].time = now
            /\ flushTimer'
       /\ (serial' /= serial /\ ~hasPerformance) =>
            /\ Len(console') = 1
            /\ console'[1].text = "m" \o ToString(serial')
            /\ logBuffer' = logBuffer
       /\ (hasPerformance /\ console' /= <<>>) => lastCallback'.kind = "timer"
       /\ \A i \in DOMAIN console' : console'[i].channel \in {"log", "info", "warn"}]_vars

\* without observers but with the performance API, the timeout's callback has just
\* printed the two entries that had waited in the buffer
TimerPrintedWithoutObserver ==
  /\ ~hasPerformanceObserver
  /\ hasPerformance
  /\ lastCallback.kind = "timer"
  /\ lastCallback.held = 2
  /\ Len(console) = 2
  /\ logBuffer = <<>>

\* C26: without the performance API and without a custom logger, a log call prints
\* its message at once, as one line on console.log for a state-change, console.info
\* for an effect-run and console.warn for a slow-effect, and leaves the buffer and the
\* flush timer as they were
NoClockPrintsAtOnce ==
  [][\A kind \in LogKinds :
       (~hasPerformance /\ Emit(kind)) =>
         /\ console' =
              <<[channel |-> CASE kind.type = "state-change" -> "log"
                               [] kind.type = "effect-run" -> "info"
                               [] kind.type = "slow-effect" -> "warn",
                 text |-> "m" \o ToString(serial + 1)]>>
         /\ logBuffer' = logBuffer
         /\ flushTimer' = flushTimer
         /\ timeouts' = timeouts]_vars

\* without the performance API the second log call, of a slow-effect entry, has just
\* printed its warning; nothing is buffered and no timeout is pending
WarningPrintedWithoutClock ==
  /\ ~hasPerformance
  /\ serial = 2
  /\ console = <<[channel |-> "warn", text |-> "m2"]>>
  /\ logBuffer = <<>>
  /\ ~flushTimer
  /\ timeouts = 0

\* C27: every line printed on console.log, console.info or console.warn starts with
\* the tag of its severity, "[state-change]", "[effect-run]" or "[slow-effect]",
\* followed by the ordinal, if any, and the message
EveryLineTagged ==
  \A i \in DOMAIN console :
    console[i].channel \in {"log", "info", "warn"} =>
      \E type \in {"state-change", "effect-run", "slow-effect"}, k \in 1..MaxEntries :
        console[i].text \in
          {"[" \o type \o "] m" \o ToString(k)}
            \cup {"[" \o type \o "] " \o ToString(j) \o "/" \o ToString(n) \o " m" \o ToString(k) :
                    j \in 1..MaxEntries, n \in 1..MaxEntries}

\* C28: whatever a step prints for an entry goes to the channel of the entry's
\* severity: console.log for state-change, console.info for effect-run, console.warn
\* for slow-effect, whether the entry is printed at once, before a window, in a group
\* or by the fallback flush
SeverityDecidesChannel ==
  [][LET Route(type) == CASE type = "state-change" -> "log"
                          [] type = "effect-run" -> "info"
                          [] type = "slow-effect" -> "warn"
         IsLine(line) == line.channel \in {"log", "info", "warn"}
         Texts(entry) ==
           {"[" \o entry.type \o "] " \o entry.message}
             \cup {"[" \o entry.type \o "] " \o ToString(i) \o "/" \o ToString(n) \o " "
                     \o entry.message : i \in 1..MaxEntries, n \in 1..MaxEntries}
     IN  /\ \A kind \in LogKinds :
              (~hasPerformance /\ Emit(kind)) =>
                /\ Len(console') = 1
                /\ console'[1].channel = Route(kind.type)
         /\ hasPerformance =>
              \A i \in DOMAIN console' :
                IsLine(console'[i]) =>
                  /\ \E k \in DOMAIN logBuffer : console'[i].text \in Texts(logBuffer[k])
                  /\ \A k \in DOMAIN logBuffer :
                       console'[i].text \in Texts(logBuffer[k])
                         => console'[i].channel = Route(logBuffer[k].type)]_vars

\* one group has been printed with a line on each of the three channels
GroupUsedThreeChannels ==
  /\ Len(console) = 5
  /\ console[1].channel = "groupCollapsed"
  /\ {console[i].channel : i \in 2..4} = {"log", "info", "warn"}
  /\ console[5].channel = "groupEnd"

\* C29: the installed context is always the one of the innermost invocation whose
\* body is executing, and none when no body is executing; a state-change entry is
\* attributed to that invocation, and its message names that invocation's effect
InnermostContextIsCurrent ==
  /\ [](effectTracker = (IF stack = <<>> THEN 0 ELSE stack[Len(stack)].tracker))
  /\ [][LET last == emitted'[Len(emitted')]
            top == stack[Len(stack)]
            printed == sinkLog' \o [i \in DOMAIN console' |-> console'[i].text]
        IN  (/\ Len(emitted') = Len(Live(emitted)) + 1
             /\ last.type = "state-change") =>
              /\ stack /= <<>>
              /\ last.inv = top.tracker
              /\ \A k \in 1..(Len(stack) - 1) : last.inv /= stack[k].tracker
              /\ \E hook \in {"useState", "useReducer"} :
                   printed = <<"useEffect " \o EffectLocation(top.effect) \o " in "
                                 \o EffectComponent(top.effect) \o " changed " \o hook
                                 \o " \"" \o last.stateName \o "\" because "
                                 \o last.reason>>]_vars

\* after a nested invocation has ended, a mutation made by the outer body has been
\* attributed to the outer invocation
OuterMutationAfterInner ==
  /\ Len(stack) = 1
  /\ stack[1].tracker = 1
  /\ Len(trackers) = 2
  /\ effectTracker = 1
  /\ emitted /= <<>>
  /\ emitted[Len(emitted)].type = "state-change"
  /\ emitted[Len(emitted)].inv = 1
  /\ Len(sinkLog) + Len(console) = 1

\* C30: when the timeout's callback finds the buffer empty, it prints nothing, opens
\* no group and leaves the buffer empty
FlushOfEmptyBufferIsNoOp ==
  [][(FlushTimerFires /\ logBuffer = <<>>) => (console' = <<>> /\ logBuffer' = <<>>)]_vars

\* a callback of an observer had drained the buffer, and the timeout armed by the
\* drained entries has fired on the empty buffer
TimerFiredOnDrainedBuffer ==
  /\ lastCallback.kind = "timer"
  /\ lastCallback.held = 0
  /\ serial > 0
  /\ hasPerformanceObserver
  /\ console = <<>>
  /\ logBuffer = <<>>
  /\ ~flushTimer

ImportIffHookRewritten ==
  LET Order == <<"__trackedUseState", "__trackedUseReducer", "__trackedUseEffect",
                 "__trackedUseLayoutEffect">>
      Hooks == {"useState", "useReducer", "useEffect", "useLayoutEffect"}
      IsImport(node) == node.type \in {"ImportDeclaration", "VariableDeclaration"}
      Injected == ast.body /= <<>> /\ IsImport(ast.body[1])
      rest == IF Injected THEN Tail(ast.body) ELSE ast.body
      Listed == IF ast.body[1].type = "ImportDeclaration" THEN ast.body[1].specifiers
                ELSE ast.body[1].properties
      CalleeName(call) == IF call.callee.type = "Identifier" THEN call.callee.name
                          ELSE call.callee.property.name
      IsHook(k) == CalleeName(source.body[k].expression) \in Hooks
      Rewritten(k) == rest[k].expression /= source.body[k].expression
      Used == {rest[k].expression.callee.name : k \in {j \in DOMAIN rest : Rewritten(j)}}
      IsUsed(name) == name \in Used
  IN  pass.phase = "done" =>
        /\ Len(rest) = Len(source.body)
        /\ \A k \in DOMAIN rest : ~IsImport(rest[k]) /\ (Rewritten(k) <=> IsHook(k))
        /\ Injected <=> \E k \in DOMAIN rest : Rewritten(k)
        /\ Injected =>
             /\ Listed = SelectSeq(Order, IsUsed)
             /\ ast.body[1].type =
                  (IF source.sourceType = "script" THEN "VariableDeclaration"
                   ELSE "ImportDeclaration")
        /\ (\A k \in DOMAIN source.body : ~IsHook(k)) => ast = source

\* a finished file whose first hook call is an effect and whose second is a useState:
\* the import lists the state wrapper first
ImportListsStateBeforeEffect ==
  /\ pass.phase = "done"
  /\ Len(source.body) = 2
  /\ source.body[1].expression.callee = identifier("useEffect")
  /\ source.body[2].expression.callee = identifier("useState")
  /\ ast.body[1].type = "ImportDeclaration"
  /\ ast.body[1].specifiers = <<"__trackedUseState", "__trackedUseEffect">>

\* C33 (as stated): in a finished file every rewritten effect call carries, for a
\* dependency array literal, a list of names of the same length in which position i
\* is the name of element i when it is an identifier, its dotted path when it is a
\* member expression, and "complex" otherwise; when the dependency argument is absent
\* or no array literal, the names argument is null and the dependency argument is
\* passed through (undefined when absent).
DepNamesAreDottedPaths ==
  LET RECURSIVE Text(_)
      Text(node) ==
        IF node.type = "Identifier" THEN node.name
        ELSE IF node.type = "ThisExpression" THEN "this"
        ELSE IF node.type = "NumericLiteral" THEN ToString(node.value)
        ELSE IF node.type = "MemberExpression"
          THEN Text(node.object) \o "." \o Text(node.property)
        ELSE "complex"
      NameOf(el) ==
        IF el.type = "Identifier" THEN el.name
        ELSE IF el.type = "MemberExpression" THEN Text(el)
        ELSE "complex"
      IsImport(node) == node.type \in {"ImportDeclaration", "VariableDeclaration"}
      rest == IF ast.body /= <<>> /\ IsImport(ast.body[1]) THEN Tail(ast.body) ELSE ast.body
      CalleeName(call) == IF call.callee.type = "Identifier" THEN call.callee.name
                          ELSE call.callee.property.name
      IsEffect(k) == CalleeName(source.body[k].expression) \in {"useEffect", "useLayoutEffect"}
      Aligned(k) ==
        LET args == source.body[k].expression.arguments
            out == rest[k].expression.arguments
        IN  IF Len(args) >= 2 /\ args[2].type = "ArrayExpression"
              THEN /\ out[2] = args[2]
                   /\ out[5].type = "ArrayExpression"
                   /\ Len(out[5].elements) = Len(args[2].elements)
                   /\ \A i \in DOMAIN args[2].elements :
                        out[5].elements[i] = stringLiteral(NameOf(args[2].elements[i]))
              ELSE /\ out[5] = nullLiteral
                   /\ out[2] = (IF Len(args) >= 2 THEN args[2] ELSE identifier("undefined"))
  IN  pass.phase = "done" => \A k \in DOMAIN source.body : IsEffect(k) => Aligned(k)

\* C33 (amended): as above, but the name of a member expression is the rendering of
\* its object, followed by ".name" for a plain access and by "[" property "]" for a
\* computed one, in which an identifier renders as its name and every node that is
\* neither an identifier nor a member expression as "complex"; it is the dotted path
\* when the member expression is a chain of plain accesses that starts at an identifier.
DepNamesAlignedWithLiteral ==
  LET RECURSIVE Rendering(_)
      Rendering(node) ==
        IF node.type = "Identifier" THEN node.name
        ELSE IF node.type = "MemberExpression"
          THEN IF node.computed
                 THEN Rendering(node.object) \o "[" \o Rendering(node.property) \o "]"
                 ELSE Rendering(node.object) \o "." \o node.property.name
        ELSE "complex"
      RECURSIVE IsChain(_)
      IsChain(node) ==
        \/ node.type = "Identifier"
        \/ /\ node.type = "MemberExpression"
           /\ ~node.computed
           /\ IsChain(node.object)
      RECURSIVE Dotted(_)
      Dotted(node) ==
        IF node.type = "Identifier" THEN node.name
        ELSE Dotted(node.object) \o "." \o node.property.name
      NameOf(el) ==
        IF el.type = "Identifier" THEN el.name
        ELSE IF el.type = "MemberExpression" THEN Rendering(el)
        ELSE "complex"
      IsImport(node) == node.type \in {"ImportDeclaration", "VariableDeclaration"}
      rest == IF ast.body /= <<>> /\ IsImport(ast.body[1]) THEN Tail(ast.body) ELSE ast.body
      CalleeName(call) == IF call.callee.type = "Identifier" THEN call.callee.name
                          ELSE call.callee.property.name
      IsEffect(k) == CalleeName(source.body[k].expression) \in {"useEffect", "useLayoutEffect"}
      Aligned(k) ==
        LET args == source.body[k].expression.arguments
            out == rest[k].expression.arguments
        IN  IF Len(args) >= 2 /\ args[2].type = "ArrayExpression"
              THEN /\ out[2] = args[2]
                   /\ out[5].type = "ArrayExpression"
                   /\ Len(out[5].elements) = Len(args[2].elements)
                   /\ \A i \in DOMAIN args[2].elements :
                        /\ out[5].elements[i] = stringLiteral(NameOf(args[2].elements[i]))
                        /\ IsChain(args[2].elements[i]) =>
                             out[5].elements[i] = stringLiteral(Dotted(args[2].elements[i]))
              ELSE /\ out[5] = nullLiteral
                   /\ out[2] = (IF Len(args) >= 2 THEN args[2] ELSE identifier("undefined"))
  IN  pass.phase = "done" => \A k \in DOMAIN source.body : IsEffect(k) => Aligned(k)

\* a finished file with an effect over [items[i], this.x, items[0]] and a layout
\* effect whose dependency argument is the identifier deps
ComputedMembersAndOpaqueDepsNamed ==
  /\ pass.phase = "done"
  /\ Len(ast.body) = 3
  /\ ast.body[2].expression.callee = identifier("__trackedUseEffect")
  /\ ast.body[2].expression.arguments[5] =
       arrayExpression(<<stringLiteral("items[i]"), stringLiteral("complex.x"),
                         stringLiteral("items[complex]")>>)
  /\ ast.body[3].expression.callee = identifier("__trackedUseLayoutEffect")
  /\ ast.body[3].expression.arguments[2] = identifier("deps")
  /\ ast.body[3].expression.arguments[5] = nullLiteral

\* C34: the context is non-null only while an effect body is executing; a wrapper
\* called when no body is executing (after the effect that captured it returned)
\* finds the context null, logs and prints nothing, marks no invocation as having
\* set state, and still forwards the call.
ContextNullOutsideBodies ==
  /\ [](stack = <<>> => effectTracker = 0)
  /\ [][(rawCalls' /= <<>> /\ stack = <<>>) =>
          /\ effectTracker = 0
          /\ effectTracker' = 0
          /\ emitted' = <<>>
          /\ sinkLog' = <<>>
          /\ console' = <<>>
          /\ logBuffer' = logBuffer
          /\ trackers' = trackers
          /\ \A t \in DOMAIN trackers' : ~trackers'[t].stateWasSet
          /\ Len(rawCalls') = 1]_vars

\* after an effect has run and returned, a dispatch that changes the state was
\* made with no body executing, and nothing was logged
LateDispatchStayedSilent ==
  /\ stack = <<>>
  /\ \E e \in Effects : hasRun[e]
  /\ trackers /= <<>>
  /\ Len(rawCalls) = 1
  /\ rawCalls[1].raw \in ReducerFns
  /\ rawCalls[1].arg = "increment"
  /\ effectTracker = 0
  /\ sinkLog = <<>>
  /\ console = <<>>

\* C35: in the buffered mode, in every reachable state with a non-empty buffer the
\* flush timeout is pending (its handle is set and the host holds exactly one
\* callback), also after an observer callback has kept an after-partition; hence
\* every entry in the buffer eventually leaves it, whether or not a timing signal
\* arrives
NonEmptyBufferHasPendingFlush ==
  /\ [](logBuffer /= <<>> => flushTimer /\ timeouts = 1)
  /\ [](flushTimer <=> timeouts = 1)
  /\ \A n \in 1..MaxEntries :
       (\E k \in DOMAIN logBuffer : logBuffer[k].message = "m" \o ToString(n))
         ~> (\A k \in DOMAIN logBuffer : logBuffer[k].message /= "m" \o ToString(n))

\* the long-task callback has just kept an after-partition, and the timeout is pending
AfterPartitionKeptWithTimerPending ==
  /\ lastCallback.kind = "longtask"
  /\ logBuffer /= <<>>
  /\ flushTimer
  /\ timeouts = 1

\* C36: an entry whose time lies inside a window that an observer callback delivers
\* is printed in that window's group, whatever the order of the timeout's callback and
\* the observer callback: when the timeout's callback has removed entries from the
\* buffer, the step that follows does not deliver a window that covers the time of one
\* of them.
TimerSparesCoveredEntries ==
  [][\A t \in lastCallback.flushed :
       \A w \in lastCallback'.delivered : ~(w[1] <= t /\ t <= w[2])]_vars

\* C37: for the buffer of any reachable state and any two windows that do not
\* overlap, from the same source or from different ones, processing the windows in
\* either order gives every entry of the buffer the same outcome: printed alone,
\* printed inside a group, or kept in the buffer.
WindowOrderIsImmaterial ==
  LET Spans == {<<1, 50>>, <<90, 150>>, <<160, 250>>}
      Windows == {[source |-> type, start |-> span[1], end |-> span[2]] :
                    type \in EntryTypes, span \in Spans}
      Process(st, w) ==
        IF w.source = "longtask"
          THEN ProcessLongTask(st, [startTime |-> w.start, duration |-> w.end - w.start])
          ELSE ProcessInteraction(st, [name |-> "click", startTime |-> w.start,
                                       duration |-> 200, processingStart |-> w.start,
                                       processingEnd |-> w.end, interactionId |-> 1])
      Run(first, second) == Process(Process(LogState, first), second)
      Texts(entry) ==
        {"[" \o entry.type \o "] " \o entry.message}
          \cup {"[" \o entry.type \o "] " \o ToString(i) \o "/" \o ToString(n) \o " "
                  \o entry.message : i \in 1..MaxEntries, n \in 1..MaxEntries}
      Outcome(st, entry) ==
        LET lines == {i \in DOMAIN st.console : st.console[i].text \in Texts(entry)}
            Opened(i) == Cardinality({j \in 1..i : st.console[j].channel = "groupCollapsed"})
            Closed(i) == Cardinality({j \in 1..i : st.console[j].channel = "groupEnd"})
        IN  IF \E k \in DOMAIN st.logBuffer : st.logBuffer[k] = entry THEN "kept"
            ELSE IF lines = {} THEN "dropped"
            ELSE IF \E i \in lines : Opened(i) > Closed(i) THEN "grouped"
            ELSE "alone"
  IN  \A a \in Windows, b \in Windows :
        a.end < b.start =>
          \A k \in DOMAIN logBuffer :
            Outcome(Run(a, b), logBuffer[k]) = Outcome(Run(b, a), logBuffer[k])

\* C38: the step in which an exception leaves an effect invocation logs and prints
\* nothing, whatever the time the body took and whether or not it set state: no
\* slow-effect and no effect-run entry; the entries logged for the invocation are the
\* state-change entries of the wrapper calls made before the throw.
ThrowingBodyLogsNothingMore ==
  [][(raised' /= NoExc /\ Len(stack') < Len(stack)) =>
       /\ sinkLog' = <<>>
       /\ console' = <<>>
       /\ logBuffer' = logBuffer
       /\ timeouts' = timeouts
       /\ \A i \in DOMAIN emitted :
            emitted[i].inv = stack[Len(stack)].tracker => emitted[i].type = "state-change"
       /\ Len(emitted') <= Len(emitted)
       /\ \A i \in DOMAIN emitted' :
            emitted'[i].inv = stack[Len(stack)].tracker => emitted'[i].type = "state-change"]_vars

\* the only invocation so far ran for 8 ms in an environment with a clock, then threw:
\* nothing was logged by the exit
SlowBodyThrewSilently ==
  /\ raised /= NoExc
  /\ stack = <<>>
  /\ Len(trackers) = 1
  /\ hasPerformance
  /\ now = 1 + SlowThreshold
  /\ sinkLog = <<>>
  /\ console = <<>>

IdenticalValueLeavesFlagAlone ==
  [][/\ (rawCalls' /= <<>> /\ stack /= <<>>) =>
          \A w \in DOMAIN wrappers :
            wrappers[w].raw = rawCalls'[1].raw =>
              IF StrictNotEqual(wrappers[w].value, wrappers'[w].value)
                THEN /\ trackers'[effectTracker].stateWasSet
                     /\ \A t \in DOMAIN trackers :
                          t /= effectTracker => trackers'[t] = trackers[t]
                     /\ effectTracker = stack[Len(stack)].tracker
                ELSE /\ trackers' = trackers
                     /\ sinkLog' = <<>>
                     /\ console' = <<>>
                     /\ logBuffer' = logBuffer
     /\ (raised = NoExc /\ raised' = NoExc /\ Len(stack') < Len(stack)) =>
          LET top == stack[Len(stack)]
          IN  /\ top.changing = <<>> <=> ~trackers[top.tracker].stateWasSet
              /\ top.changing = <<>> =>
                   /\ emitted' /= <<>>
                   /\ emitted'[Len(emitted')].type = "effect-run"
                   /\ emitted'[Len(emitted')].inv = top.tracker
                   /\ Len(sinkLog') + Len(console') + Len(logBuffer') - Len(logBuffer) >= 1]_vars

\* after a nested invocation has ended, the outer body has dispatched an action that
\* leaves the state as it is: nothing was logged and the outer flag is unset
NoopDispatchLeftOuterFlagUnset ==
  /\ Len(stack) = 1
  /\ Len(trackers) = 2
  /\ effectTracker = 1
  /\ Len(rawCalls) = 1
  /\ rawCalls[1].raw \in ReducerFns
  /\ rawCalls[1].arg = "noop"
  /\ ~trackers[1].stateWasSet
  /\ sinkLog = <<>>
  /\ console = <<>>

====
